---- MODULE Spec2Model ----
(***************************************************************************)
(* A model of the UML editor's diagram logic:                              *)
(*   - mergeDiagramModifications (lib/gemini-service.ts), the merge of an  *)
(*     AI-proposed diagram into the existing one;                          *)
(*   - useRealtimeSync (hooks/use-realtime-sync), the event-stream hook;   *)
(*   - EditorContent (app/editor/page.tsx), the editor's state, its edit   *)
(*     handlers and its debounced autosave;                                *)
(*   - AssociationEditor (components/association-editor.tsx), the dialog   *)
(*     that builds an association;                                         *)
(*   - retryWithBackoff (lib/gemini-service.ts), the retry loop around the *)
(*     request to the AI service.                                          *)
(***************************************************************************)
EXTENDS Integers, Sequences, FiniteSets, TLC

(***************************************************************************)
(* Bounds of the model.                                                    *)
(***************************************************************************)
MaxExisting == 2        \* longest existing class list given to the merge
MaxProposed == 2        \* longest proposed class list given to the merge
MaxAssocs == 2          \* longest association list given to the merge

(***************************************************************************)
(* Values.                                                                 *)
(***************************************************************************)
Undefined == "undefined"

ClassIds == {"c1", "c2", "c3"}
AssocIds == {"a1", "a2"}

\* String.prototype.toLowerCase on the class names of the model.
toLowerCase(s) ==
    CASE s = "User"  -> "user"
      [] s = "user"  -> "user"
      [] s = "Order" -> "order"
      [] OTHER       -> s

SeqsUpTo(S, n) == UNION {[1..k -> S] : k \in 0..n}

Range(s) == {s[i] : i \in 1..Len(s)}

\* The ids of a list of entities, in order (with repetitions).
IdsOf(s) == [i \in 1..Len(s) |-> s[i].id]

UniqueIds(s) == \A i, j \in 1..Len(s) : s[i].id = s[j].id => i = j

(***************************************************************************)
(* A JavaScript Map: a sequence of [key, value] entries in insertion       *)
(* order. set() of a present key replaces the value and keeps the entry's  *)
(* place; set() of an absent key appends.                                  *)
(***************************************************************************)
MapHas(m, k) == \E i \in 1..Len(m) : m[i].key = k

MapGet(m, k) ==
    IF MapHas(m, k)
    THEN m[CHOOSE i \in 1..Len(m) : m[i].key = k].value
    ELSE Undefined

MapSet(m, k, v) ==
    IF MapHas(m, k)
    THEN [i \in 1..Len(m) |-> IF m[i].key = k THEN [key |-> k, value |-> v] ELSE m[i]]
    ELSE Append(m, [key |-> k, value |-> v])

MapDelete(m, k) == SelectSeq(m, LAMBDA e : e.key # k)

MapValues(m) == [i \in 1..Len(m) |-> m[i].value]

\* new Map(list.map(x => [x.id, x]))
RECURSIVE MapById(_)
MapById(list) ==
    IF list = <<>> THEN <<>>
    ELSE LET front == SubSeq(list, 1, Len(list) - 1)
             last  == list[Len(list)]
         IN  MapSet(MapById(front), last.id, last)

\* new Map(existingClasses.map(cls => [cls.name.toLowerCase(), cls]))
RECURSIVE MapByName(_)
MapByName(list) ==
    IF list = <<>> THEN <<>>
    ELSE LET front == SubSeq(list, 1, Len(list) - 1)
             last  == list[Len(list)]
         IN  MapSet(MapByName(front), toLowerCase(last.name), last)

(***************************************************************************)
(* mergeDiagramModifications.                                              *)
(***************************************************************************)
\* aiClass.position || match.position
PositionOr(aiClass, match) ==
    IF "position" \in DOMAIN aiClass /\ aiClass.position # Undefined
    THEN aiClass.position
    ELSE IF "position" \in DOMAIN match THEN match.position ELSE Undefined

\* { ...a, ...b }: b's keys over a's.
ObjectSpread(a, b) == b @@ a

\* { ...idMatch, ...aiClass, position: aiClass.position || idMatch.position }
IdMatchMerge(idMatch, aiClass) ==
    [position |-> PositionOr(aiClass, idMatch)] @@ ObjectSpread(idMatch, aiClass)

\* { ...nameMatch, ...aiClass, id: nameMatch.id,
\*   position: aiClass.position || nameMatch.position }
NameMatchMerge(nameMatch, aiClass) ==
    [id |-> nameMatch.id, position |-> PositionOr(aiClass, nameMatch)]
        @@ ObjectSpread(nameMatch, aiClass)

\* Mutant: the name index is consulted before the id index.
MergeClassStep_NameFirst(st, aiClass) ==
    IF MapHas(st.byName, toLowerCase(aiClass.name))
    THEN LET nameMatch == MapGet(st.byName, toLowerCase(aiClass.name))
         IN  [byId   |-> MapDelete(st.byId, nameMatch.id),
              byName |-> MapDelete(st.byName, toLowerCase(nameMatch.name)),
              merged |-> Append(st.merged, NameMatchMerge(nameMatch, aiClass))]
    ELSE IF MapHas(st.byId, aiClass.id)
    THEN LET idMatch == MapGet(st.byId, aiClass.id)
         IN  [byId   |-> MapDelete(st.byId, aiClass.id),
              byName |-> MapDelete(st.byName, toLowerCase(idMatch.name)),
              merged |-> Append(st.merged, IdMatchMerge(idMatch, aiClass))]
    ELSE [st EXCEPT !.merged = Append(st.merged, aiClass)]

\* Mutant: the closing else branch is missing, an unmatched class is not pushed.
MergeClassStep_NoElse(st, aiClass) ==
    IF MapHas(st.byId, aiClass.id)
    THEN LET idMatch == MapGet(st.byId, aiClass.id)
         IN  [byId   |-> MapDelete(st.byId, aiClass.id),
              byName |-> MapDelete(st.byName, toLowerCase(idMatch.name)),
              merged |-> Append(st.merged, IdMatchMerge(idMatch, aiClass))]
    ELSE IF MapHas(st.byName, toLowerCase(aiClass.name))
    THEN LET nameMatch == MapGet(st.byName, toLowerCase(aiClass.name))
         IN  [byId   |-> MapDelete(st.byId, nameMatch.id),
              byName |-> MapDelete(st.byName, toLowerCase(nameMatch.name)),
              merged |-> Append(st.merged, NameMatchMerge(nameMatch, aiClass))]
    ELSE st

\* One turn of aiClasses.forEach: st holds the two indexes and mergedClasses.
MergeClassStep(st, aiClass) ==
    IF MapHas(st.byId, aiClass.id)
    THEN LET idMatch == MapGet(st.byId, aiClass.id)
         IN  [byId   |-> MapDelete(st.byId, aiClass.id),
              byName |-> MapDelete(st.byName, toLowerCase(idMatch.name)),
              merged |-> Append(st.merged, IdMatchMerge(idMatch, aiClass))]
    ELSE IF MapHas(st.byName, toLowerCase(aiClass.name))
    THEN LET nameMatch == MapGet(st.byName, toLowerCase(aiClass.name))
         IN  [byId   |-> MapDelete(st.byId, nameMatch.id),
              byName |-> MapDelete(st.byName, toLowerCase(nameMatch.name)),
              merged |-> Append(st.merged, NameMatchMerge(nameMatch, aiClass))]
    ELSE [st EXCEPT !.merged = Append(st.merged, aiClass)]

RECURSIVE MergeClassLoop(_, _)
MergeClassLoop(st, ai) ==
    IF ai = <<>> THEN st
    ELSE MergeClassLoop(MergeClassStep(st, Head(ai)), Tail(ai))

\* existingClassById.forEach(cls => mergedClasses.push(cls))
KeepUntouched(merged, byId) == merged \o MapValues(byId)

\* Mutant: no closing pass.
DedupByIdMap_Skipped(list) == list

\* The closing pass: a Map keyed by id, filled in list order, then its values.
DedupByIdMap(list) == MapValues(MapById(list))

\* The class list as assembled before the closing pass.
AssembledClasses(existing, ai) ==
    LET st == MergeClassLoop([byId   |-> MapById(existing),
                              byName |-> MapByName(existing),
                              merged |-> <<>>], ai)
    IN  KeepUntouched(st.merged, st.byId)

MergeClasses(existing, ai) == DedupByIdMap(AssembledClasses(existing, ai))

\* One turn of aiAssociations.forEach.
MergeAssocStep(st, aiAssoc) ==
    IF MapHas(st.byId, aiAssoc.id)
    THEN [byId   |-> MapDelete(st.byId, aiAssoc.id),
          merged |-> Append(st.merged, ObjectSpread(MapGet(st.byId, aiAssoc.id), aiAssoc))]
    ELSE [st EXCEPT !.merged = Append(st.merged, aiAssoc)]

RECURSIVE MergeAssocLoop(_, _)
MergeAssocLoop(st, ai) ==
    IF ai = <<>> THEN st
    ELSE MergeAssocLoop(MergeAssocStep(st, Head(ai)), Tail(ai))

AssembledAssociations(existing, ai) ==
    LET st == MergeAssocLoop([byId |-> MapById(existing), merged |-> <<>>], ai)
    IN  KeepUntouched(st.merged, st.byId)

MergeAssociations(existing, ai) == DedupByIdMap(AssembledAssociations(existing, ai))

(***************************************************************************)
(* validateUMLDiagramJSON, as far as the merge depends on it: every        *)
(* association's endpoints are ids of the diagram's classes.               *)
(***************************************************************************)
EndpointsResolve(cls, assocs) ==
    \A i \in 1..Len(assocs) :
        /\ assocs[i].fromClassId \in Range(IdsOf(cls))
        /\ assocs[i].toClassId \in Range(IdsOf(cls))

(***************************************************************************)
(* The inputs of the merge.                                                *)
(***************************************************************************)
\* Classes of the editor: id, name, position (attributes are carried like
\* the name and are left out).
ExistingClassValues ==
    [id : ClassIds, name : {"User", "Order"}, position : {"P1"}]

\* Classes of an AI response; the position may be missing.
AiClassValues ==
    [id : ClassIds, name : {"user", "Order"}, position : {"P2"}]
        \union [id : ClassIds, name : {"user", "Order"}]

\* Ordered pairs of distinct ids: the endpoints an association may have.
EndpointPairs(cls) ==
    {pr \in Range(IdsOf(cls)) \X Range(IdsOf(cls)) : pr[1] # pr[2]}

\* Associations between the classes of `cls`; an existing association
\* may carry cascadeDelete, which an AI association never has
\* (modifyExistingDiagram copies six fixed fields).
ExistingAssocValues(cls) ==
    {[id |-> a, fromClassId |-> pr[1], toClassId |-> pr[2],
      relationshipType |-> "association"] :
        a \in AssocIds, pr \in EndpointPairs(cls)}
    \union
    {[id |-> a, fromClassId |-> pr[1], toClassId |-> pr[2],
      relationshipType |-> "composition", cascadeDelete |-> "true"] :
        a \in AssocIds, pr \in EndpointPairs(cls)}

AiAssocValues(cls) ==
    {[id |-> a, fromClassId |-> pr[1], toClassId |-> pr[2],
      relationshipType |-> "association"] :
        a \in AssocIds, pr \in EndpointPairs(cls)}

(***************************************************************************)
(* useRealtimeSync: the refs of the hook as a record                       *)
(*   [eventSource, reconnectTimeout, reconnectAttempts, is404Error],       *)
(* and what connect(), the effect, its cleanup and the event handlers do   *)
(* to them. An EventSource is [id, readyState, serial]; one that has been  *)
(* closed by close() delivers no further event and is dropped.             *)
(***************************************************************************)
Null == "null"

DiagramIds == {"d1", "d2"}
UserIds == {"u1", "u2"}

\* The values of an empty ref, in the shape of what the ref holds otherwise.
NoEventSource == [id |-> Null, readyState |-> "NONE", serial |-> 0]
NoTimeout == [delay |-> 0, pending |-> FALSE]

maxReconnectAttempts == 5

MaxConnects == 4        \* bound: EventSources created in one run of the model

Min(a, b) == IF a < b THEN a ELSE b

\* Math.min(1000 * Math.pow(2, reconnectAttemptsRef.current), 10000)
ReconnectDelay(attempts) == Min(1000 * (2 ^ attempts), 10000)

\* The EventSources that are connecting or open, after close() on the one
\* the ref holds (r.live is every EventSource created and neither closed by
\* close() nor failed for good).
Closed(r) ==
    r.live \ {[id |-> r.eventSource.id, serial |-> r.eventSource.serial]}

\* connect(): nothing when the diagram is flagged as not found; otherwise the
\* present connection is closed and a new EventSource takes its place.
ConnectRefs(r, id, serial) ==
    IF r.is404Error
    THEN r
    ELSE [r EXCEPT !.eventSource =
                       [id |-> id, readyState |-> "CONNECTING", serial |-> serial],
                   !.live = Closed(r) \union {[id |-> id, serial |-> serial]}]

\* The function the effect returns, without its call of close().
CleanupRefs_NoClose(r) ==
    [eventSource       |-> NoEventSource,
     reconnectTimeout  |-> NoTimeout,
     reconnectAttempts |-> 0,
     is404Error        |-> FALSE,
     live              |-> r.live]

\* The function the effect returns.
CleanupRefs(r) ==
    [eventSource       |-> NoEventSource,
     reconnectTimeout  |-> NoTimeout,
     reconnectAttempts |-> 0,
     is404Error        |-> FALSE,
     live              |-> Closed(r)]

\* Whether the effect goes past its first return.
ShouldConnect(props) == props.enabled /\ props.diagramId # Null

\* The effect without its call of connect().
EffectRefs_ResetOnly(r, props, serial) ==
    IF ~ShouldConnect(props)
    THEN [r EXCEPT !.eventSource = NoEventSource, !.live = Closed(r)]
    ELSE [r EXCEPT !.is404Error = FALSE, !.reconnectAttempts = 0]

\* The body of the effect under the props of the render.
EffectRefs(r, props, serial) ==
    IF ~ShouldConnect(props)
    THEN [r EXCEPT !.eventSource = NoEventSource, !.live = Closed(r)]
    ELSE ConnectRefs([r EXCEPT !.is404Error = FALSE, !.reconnectAttempts = 0],
                     props.diagramId, serial)

\* eventSource.onopen
OnOpenRefs(r) ==
    [r EXCEPT !.eventSource.readyState = "OPEN",
              !.reconnectAttempts = 0,
              !.is404Error = FALSE,
              !.reconnectTimeout = NoTimeout]

\* eventSource.onerror with readyState CLOSED
ErrorClosedRefs(r) ==
    LET c == [r EXCEPT !.eventSource.readyState = "CLOSED", !.live = Closed(r)]
    IN  IF c.reconnectAttempts = 0
        THEN [c EXCEPT !.is404Error = TRUE]
        ELSE IF ~c.is404Error /\ c.reconnectAttempts < maxReconnectAttempts
        THEN [c EXCEPT !.reconnectAttempts = @ + 1,
                       !.reconnectTimeout =
                           [delay   |-> ReconnectDelay(c.reconnectAttempts + 1),
                            pending |-> TRUE]]
        ELSE c

\* eventSource.onerror with readyState CONNECTING: the browser is retrying by
\* itself, the handler only logs.
ErrorConnectingRefs(r) == [r EXCEPT !.eventSource.readyState = "CONNECTING"]

\* The callback of the reconnect timer: connect().
ReconnectTimerRefs(r, id, serial) ==
    ConnectRefs([r EXCEPT !.reconnectTimeout.pending = FALSE], id, serial)

\* The messages of the stream: a keepalive, or a JSON object with a type
\* and, for an update, the sender and a snapshot.
Snapshots == {"s1", "s2"}

Messages ==
    {[type |-> "keepalive"], [type |-> "connected"], [type |-> "error"]}
        \union [type : {"update"}, user_id : UserIds \union {Undefined},
                diagram_data : Snapshots \union {Undefined}]

\* History only: the message is an update carrying the local user's id.
IsOwnUpdate(msg, userId) ==
    /\ msg.type = "update"
    /\ msg.diagram_data # Undefined
    /\ msg.user_id # Undefined
    /\ msg.user_id = userId

\* The hook without the check of the sender.
CallsOnUpdate_AnySender(msg, userId) ==
    msg.type = "update" /\ msg.diagram_data # Undefined

\* eventSource.onmessage: whether onUpdate is called for the message.
CallsOnUpdate(msg, userId) ==
    /\ msg.type = "update" /\ msg.diagram_data # Undefined
    /\ ~(msg.user_id # Undefined /\ msg.user_id = userId)

(***************************************************************************)
(* The editor page (EditorContent): values and the pure parts of its       *)
(* handlers and effects.                                                   *)
(***************************************************************************)
EditorClassIds == {"c1", "c2"}
EditorAssocIds == {"a1", "a2"}

\* Classes as the editor holds them; a drag changes the position, the class
\* editor the name.
EditorClassValues ==
    [id : EditorClassIds, name : {"User", "Order"}, position : {"P1", "P2"}]

\* Partial<UMLClass> as the callers of updateClass pass it: the canvas a
\* position, the class editor a name.
ClassPatches == [position : {"P2"}] \union [name : {"Order"}]

IsPositionPatch(patch) == "position" \in DOMAIN patch

NoDiagram == [id |-> Null, version |-> 0]

\* currentDiagram.id.startsWith('shared-')
StartsWithShared(id) == id \in {"shared-t1"}

NoTimer == [armed |-> FALSE, remaining |-> 0]
NoPending == [id |-> Null, position |-> Null]

Timer(ms) == [armed |-> TRUE, remaining |-> ms]

dragResetDelay == 200

\* debounceTime of the autosave effect.
DebounceTime(diagram) == IF StartsWithShared(diagram.id) THEN 1000 ELSE 3000

\* list.filter((x, index, self) => index === self.findIndex(y => y.id === x.id))
RECURSIVE FilterFirstFrom(_, _)
FilterFirstFrom(self, index) ==
    IF index > Len(self)
    THEN <<>>
    ELSE LET findIndex == CHOOSE j \in 1..Len(self) :
                              /\ self[j].id = self[index].id
                              /\ \A k \in 1..(j - 1) : self[k].id # self[index].id
         IN  (IF index = findIndex THEN <<self[index]>> ELSE <<>>)
                 \o FilterFirstFrom(self, index + 1)

\* Mutant: the last occurrence of each id is kept instead of the first.
FilterFirstById_KeepsLast(self) ==
    LET kept == {i \in 1..Len(self) :
                    \A j \in (i + 1)..Len(self) : self[j].id # self[i].id}
        F[i \in 0..Len(self)] ==
            IF i = 0 THEN <<>>
            ELSE IF i \in kept THEN Append(F[i - 1], self[i]) ELSE F[i - 1]
    IN  F[Len(self)]

FilterFirstById(self) == FilterFirstFrom(self, 1)

\* The canvas's filter: list.filter(x => seen.has(x.id) ? false :
\* (seen.add(x.id), true)), the Set `seen` starting empty.
RECURSIVE FilterSeenFrom(_, _, _)
FilterSeenFrom(list, index, seen) ==
    IF index > Len(list)
    THEN <<>>
    ELSE IF list[index].id \in seen
    THEN FilterSeenFrom(list, index + 1, seen)
    ELSE <<list[index]>>
             \o FilterSeenFrom(list, index + 1, seen \union {list[index].id})

FilterSeen(list) == FilterSeenFrom(list, 1, {})

\* prev.some(x => x.id === id)
SomeId(prev, id) == \E i \in 1..Len(prev) : prev[i].id = id

\* prev.filter(x => !existingIds.has(x.id)) of the two generate handlers.
NotIn(prev, list) == SelectSeq(list, LAMBDA x : ~SomeId(prev, x.id))

\* [...prev, ...uniqueNew] of handleGenerateClasses / handleGenerateAssociations
GenerateInto(prev, list) == prev \o NotIn(prev, list)

\* prev.map(cls => cls.id === id ? {...cls, ...updatedClass} : cls)
PatchClass(prev, id, patch) ==
    [i \in 1..Len(prev) |->
        IF prev[i].id = id THEN ObjectSpread(prev[i], patch) ELSE prev[i]]

\* prev.map(assoc => assoc.id === updated.id ? updated : assoc)
ReplaceAssociation(prev, updated) ==
    [i \in 1..Len(prev) |-> IF prev[i].id = updated.id THEN updated ELSE prev[i]]

\* prev.filter(x => x.id !== id)
WithoutId(prev, id) == SelectSeq(prev, LAMBDA x : x.id # id)

\* prev.filter(assoc => assoc.fromClassId !== id && assoc.toClassId !== id)
\* removeClass looking at the source end of an association only.
WithoutEndpoint_FromOnly(prev, id) ==
    SelectSeq(prev, LAMBDA a : a.fromClassId # id)

WithoutEndpoint(prev, id) ==
    SelectSeq(prev, LAMBDA a : a.fromClassId # id /\ a.toClassId # id)

\* The autosave effect without the test of the length of the class list.
AutosaveEffect_NoLengthTest(diagram, cls, dragging) ==
    IF diagram = NoDiagram \/ dragging
    THEN NoTimer
    ELSE Timer(DebounceTime(diagram))

\* The autosave effect: the timer it leaves armed.
AutosaveEffect(diagram, cls, dragging) ==
    IF diagram = NoDiagram \/ Len(cls) = 0 \/ dragging
    THEN NoTimer
    ELSE Timer(DebounceTime(diagram))

VARIABLES
    existingClasses,        \* mergeDiagramModifications: its four arguments
    existingAssociations,
    aiClasses,
    aiAssociations,
    mergedClasses,          \* and its result
    mergedAssociations,
    mergeDone,              \* whether the merge has run
    hookProps,              \* useRealtimeSync: [diagramId, enabled, currentUserId]
    hookMounted,            \* the component using the hook is mounted
    hasCleanup,             \* the last run of the effect returned its cleanup
    eventSourceRef,
    reconnectTimeoutRef,
    reconnectAttemptsRef,
    is404ErrorRef,
    liveSources,            \* the EventSources that are connecting or open
    connectCount,           \* history: EventSources created so far
    everOpened,             \* history: onopen has run since the effect last ran
    lastHandler,            \* history: the callback that ran last
    lastDelivered,          \* history: the snapshot last passed to onUpdate
    messageSerial,          \* history: parity of the number of messages handled
    notFoundId,             \* history: the diagram id flagged as not found
    connectsAtFlag,         \* history: connectCount when it was flagged
    currentDiagram,         \* EditorContent: its state
    isSharedDiagram,
    isLoading,
    isSaving,
    hasUnsavedChanges,
    classes,
    associations,
    isDraggingRef,
    dragTimeoutRef,         \* the timer that clears isDraggingRef
    autosaveTimer,          \* the timer of the autosave effect
    deferredUpdates,        \* the setTimeout(..., 0) callbacks of updateClass
    pendingSaves,           \* updateDiagram requests in flight
    lastChange,             \* history: the last of load, edit, remote update
                            \* (a list was replaced) and manual save
    autosavesSinceChange,   \* history: autosave requests since a list was replaced
    draggedClass,           \* DiagramCanvas state: id of the class being dragged
    pendingUpdateRef,       \* DiagramCanvas ref: the move not yet handed over
    msSinceDragEnd,         \* history: time since the mouse-up that ended the
                            \* last gesture, if it moved a class; else -1
    error,                  \* AIAssistantPanel state: the message shown
    dedupInput,             \* deduplication by id: the list given,
    dedupByIndex,           \* what the findIndex filter of the page returns
    dedupBySeen,            \* and what the Set filter of the canvas returns
    dedupDone,
    associationEditorOpen,  \* AssociationEditor: whether it is mounted,
    fromClassId,            \* and its state
    toClassId,
    fromMultiplicity,
    toMultiplicity,
    relationshipType,
    hasAssociationClass,
    associationClassName,
    emitted,                \* history: what it passed to onAddAssociation
    retryPhase,             \* retryWithBackoff: where the call stands,
    attempt,                \* its loop variable
    callLog,                \* history: how each call of fn ended
    delayLog,               \* history: the delays waited, in ms
    settled                 \* what the promise resolved or rejected with

mergeVars == <<existingClasses, existingAssociations, aiClasses, aiAssociations,
               mergedClasses, mergedAssociations, mergeDone>>

hookRefs == <<eventSourceRef, reconnectTimeoutRef, reconnectAttemptsRef, is404ErrorRef,
              liveSources>>

hookHistory == <<connectCount, everOpened, lastHandler, lastDelivered, messageSerial,
                 notFoundId, connectsAtFlag>>

hookVars == <<hookProps, hookMounted, hasCleanup, hookRefs, hookHistory>>

editorState == <<currentDiagram, isSharedDiagram, isLoading, isSaving,
                hasUnsavedChanges, classes, associations>>

editorTimers == <<isDraggingRef, dragTimeoutRef, autosaveTimer, deferredUpdates,
                 pendingSaves>>

editorHistory == <<lastChange, autosavesSinceChange>>

canvasVars == <<draggedClass, pendingUpdateRef, msSinceDragEnd, error>>

editorVars == <<editorState, editorTimers, editorHistory, canvasVars>>

dedupVars == <<dedupInput, dedupByIndex, dedupBySeen, dedupDone>>

dialogState == <<fromClassId, toClassId, fromMultiplicity, toMultiplicity,
                relationshipType, hasAssociationClass, associationClassName>>

dialogVars == <<associationEditorOpen, dialogState, emitted>>

retryVars == <<retryPhase, attempt, callLog, delayLog, settled>>

vars == <<mergeVars, hookVars, editorVars, dedupVars, dialogVars, retryVars>>

\* The state of the association editor as useState initialises it.
DialogInitialState ==
    [fromClassId |-> "", toClassId |-> "",
     fromMultiplicity |-> "1", toMultiplicity |-> "1",
     relationshipType |-> "association",
     hasAssociationClass |-> FALSE, associationClassName |-> ""]

DialogIdle ==
    /\ associationEditorOpen = FALSE
    /\ fromClassId = DialogInitialState.fromClassId
    /\ toClassId = DialogInitialState.toClassId
    /\ fromMultiplicity = DialogInitialState.fromMultiplicity
    /\ toMultiplicity = DialogInitialState.toMultiplicity
    /\ relationshipType = DialogInitialState.relationshipType
    /\ hasAssociationClass = DialogInitialState.hasAssociationClass
    /\ associationClassName = DialogInitialState.associationClassName
    /\ emitted = <<>>

\* The promise of retryWithBackoff: pending, or settled with a result or an
\* error.
NoError == [code |-> -1, status |-> "null"]

NoSettlement == [how |-> "pending", result |-> Null, error |-> NoError]

Returned(result) == [how |-> "returned", result |-> result, error |-> NoError]

Thrown(e) == [how |-> "thrown", result |-> Null, error |-> e]

RetryIdle ==
    /\ retryPhase = "idle"
    /\ attempt = 0
    /\ callLog = <<>>
    /\ delayLog = <<>>
    /\ settled = NoSettlement

DedupIdle ==
    /\ dedupInput = <<>>
    /\ dedupByIndex = <<>>
    /\ dedupBySeen = <<>>
    /\ dedupDone = FALSE

\* The editor as constructed: nothing loaded, the spinner showing.
EditorIdle ==
    /\ currentDiagram = NoDiagram
    /\ isSharedDiagram = FALSE
    /\ isLoading = TRUE
    /\ isSaving = FALSE
    /\ hasUnsavedChanges = FALSE
    /\ classes = <<>>
    /\ associations = <<>>
    /\ isDraggingRef = FALSE
    /\ dragTimeoutRef = NoTimer
    /\ autosaveTimer = NoTimer
    /\ deferredUpdates = <<>>
    /\ pendingSaves = <<>>
    /\ lastChange = "none"
    /\ autosavesSinceChange = 0
    /\ draggedClass = Null
    /\ pendingUpdateRef = NoPending
    /\ msSinceDragEnd = -1
    /\ error = Null

\* The hook before its first connection: mounted with realtime disabled, as
\* the editor mounts it while the diagram loads.
HookIdle ==
    /\ hookProps = [diagramId |-> Null, enabled |-> FALSE, currentUserId |-> "u1"]
    /\ hookMounted = TRUE
    /\ hasCleanup = FALSE
    /\ eventSourceRef = NoEventSource
    /\ reconnectTimeoutRef = NoTimeout
    /\ reconnectAttemptsRef = 0
    /\ is404ErrorRef = FALSE
    /\ liveSources = {}
    /\ connectCount = 0
    /\ everOpened = FALSE
    /\ lastHandler = "none"
    /\ lastDelivered = Null
    /\ messageSerial = 0
    /\ notFoundId = Null
    /\ connectsAtFlag = 0

MergeIdle ==
    /\ existingClasses = <<>>
    /\ existingAssociations = <<>>
    /\ aiClasses = <<>>
    /\ aiAssociations = <<>>
    /\ mergedClasses = <<>>
    /\ mergedAssociations = <<>>
    /\ mergeDone = FALSE

\* The class lists in full, no associations.
ClassFocus ==
    /\ existingClasses \in SeqsUpTo(ExistingClassValues, MaxExisting)
    /\ aiClasses \in SeqsUpTo(AiClassValues, MaxProposed)
    /\ existingAssociations = <<>>
    /\ aiAssociations = <<>>

\* The association lists in full, over a few class lists: an AI response
\* that reuses the ids, one that gives a known class a fresh id, none.
AssocFocus ==
    /\ existingClasses \in
         {<<>>,
          <<[id |-> "c1", name |-> "User", position |-> "P1"],
            [id |-> "c2", name |-> "Order", position |-> "P1"]>>}
    /\ aiClasses \in
         {<<>>,
          <<[id |-> "c1", name |-> "user", position |-> "P2"],
            [id |-> "c2", name |-> "Order"]>>,
          <<[id |-> "c3", name |-> "user", position |-> "P2"],
            [id |-> "c2", name |-> "Order", position |-> "P2"]>>}
    /\ existingAssociations \in
         SeqsUpTo(ExistingAssocValues(existingClasses), MaxAssocs)
    /\ aiAssociations \in SeqsUpTo(AiAssocValues(aiClasses), MaxAssocs)

MergeInit ==
    /\ HookIdle /\ EditorIdle /\ DedupIdle /\ DialogIdle /\ RetryIdle
    /\ ClassFocus \/ AssocFocus
    /\ mergedClasses = <<>>
    /\ mergedAssociations = <<>>
    /\ mergeDone = FALSE

\* A diagram with unique ids, proposed to itself.
MergeSelfInit ==
    /\ HookIdle /\ EditorIdle /\ DedupIdle /\ DialogIdle /\ RetryIdle
    /\ existingClasses \in
         {l \in SeqsUpTo(ExistingClassValues \union AiClassValues, MaxExisting) :
             /\ UniqueIds(l)
             /\ \A i \in 1..Len(l) : "position" \in DOMAIN l[i]}
    /\ existingAssociations \in
         {l \in SeqsUpTo(ExistingAssocValues(existingClasses), MaxAssocs) :
             UniqueIds(l)}
    /\ aiClasses = existingClasses
    /\ aiAssociations = existingAssociations
    /\ mergedClasses = <<>>
    /\ mergedAssociations = <<>>
    /\ mergeDone = FALSE

MergeDiagramModifications ==
    /\ ~mergeDone
    /\ mergedClasses' = MergeClasses(existingClasses, aiClasses)
    /\ mergedAssociations' = MergeAssociations(existingAssociations, aiAssociations)
    /\ mergeDone' = TRUE
    /\ UNCHANGED <<existingClasses, existingAssociations, aiClasses, aiAssociations>>
    /\ UNCHANGED <<hookVars, editorVars, dedupVars, dialogVars, retryVars>>

MergeNext == MergeDiagramModifications

SpecMerge == MergeInit /\ [][MergeNext]_vars

SpecMergeSelf == MergeSelfInit /\ [][MergeNext]_vars


(***************************************************************************)
(* useRealtimeSync as a state machine.                                     *)
(***************************************************************************)
Refs ==
    [eventSource       |-> eventSourceRef,
     reconnectTimeout  |-> reconnectTimeoutRef,
     reconnectAttempts |-> reconnectAttemptsRef,
     is404Error        |-> is404ErrorRef,
     live              |-> liveSources]

SetRefs(r) ==
    /\ eventSourceRef' = r.eventSource
    /\ reconnectTimeoutRef' = r.reconnectTimeout
    /\ reconnectAttemptsRef' = r.reconnectAttempts
    /\ is404ErrorRef' = r.is404Error
    /\ liveSources' = r.live

\* connectCount after a step that left the refs as r.
CountConnects(r) ==
    connectCount' =
        IF r.eventSource.serial > connectCount
        THEN r.eventSource.serial
        ELSE connectCount

HookProps == [diagramId : DiagramIds \union {Null}, enabled : BOOLEAN,
              currentUserId : UserIds]

\* A render with changed dependencies: the cleanup of the previous run of the
\* effect, then the effect under the new props.
Render(props) ==
    /\ hookMounted
    /\ props # hookProps
    /\ connectCount < MaxConnects
    /\ LET cleaned == IF hasCleanup THEN CleanupRefs(Refs) ELSE Refs
           r       == EffectRefs(cleaned, props, connectCount + 1)
       IN  /\ SetRefs(r)
           /\ CountConnects(r)
    /\ hookProps' = props
    /\ hasCleanup' = ShouldConnect(props)
    /\ everOpened' = FALSE
    /\ lastHandler' = "effect"
    /\ notFoundId' =
          IF props.diagramId \notin {Null, notFoundId} THEN Null ELSE notFoundId
    /\ UNCHANGED <<hookMounted, lastDelivered, messageSerial, connectsAtFlag>>
    /\ UNCHANGED <<mergeVars, editorVars, dedupVars, dialogVars, retryVars>>

\* The component goes away: the cleanup runs and nothing runs after it.
Unmount ==
    /\ hookMounted
    /\ hookMounted' = FALSE
    /\ IF hasCleanup THEN SetRefs(CleanupRefs(Refs)) ELSE UNCHANGED hookRefs
    /\ hasCleanup' = FALSE
    /\ lastHandler' = "cleanup"
    /\ UNCHANGED <<hookProps, connectCount, everOpened, lastDelivered, messageSerial,
                   notFoundId, connectsAtFlag>>
    /\ UNCHANGED <<mergeVars, editorVars, dedupVars, dialogVars, retryVars>>

\* The events an EventSource can deliver in its state: while connecting it
\* opens, fails for good (CLOSED) or fails and is retried by the browser;
\* while open it receives messages or loses the connection, which the
\* browser retries.
Live == eventSourceRef.readyState \in {"CONNECTING", "OPEN"}

OnOpen ==
    /\ Live /\ eventSourceRef.readyState = "CONNECTING"
    /\ SetRefs(OnOpenRefs(Refs))
    /\ everOpened' = TRUE
    /\ lastHandler' = "onopen"
    /\ UNCHANGED <<connectCount, lastDelivered, messageSerial, notFoundId, connectsAtFlag>>

OnMessage(msg) ==
    /\ Live /\ eventSourceRef.readyState = "OPEN"
    /\ lastDelivered' =
          IF CallsOnUpdate(msg, hookProps.currentUserId)
          THEN msg.diagram_data ELSE lastDelivered
    /\ messageSerial' = 1 - messageSerial
    /\ lastHandler' = IF IsOwnUpdate(msg, hookProps.currentUserId)
                      THEN "onmessage:own" ELSE "onmessage"
    /\ UNCHANGED <<hookRefs, connectCount, everOpened, notFoundId,
                   connectsAtFlag>>

OnErrorClosed ==
    /\ Live
    /\ LET r == ErrorClosedRefs(Refs)
       IN  /\ SetRefs(r)
           /\ IF reconnectAttemptsRef = 0 /\ ~everOpened
              THEN /\ notFoundId' = eventSourceRef.id
                   /\ connectsAtFlag' = connectCount
              ELSE UNCHANGED <<notFoundId, connectsAtFlag>>
    /\ lastHandler' = "onerror:CLOSED"
    /\ UNCHANGED <<connectCount, everOpened, lastDelivered, messageSerial>>

OnErrorConnecting ==
    /\ Live
    /\ SetRefs(ErrorConnectingRefs(Refs))
    /\ lastHandler' = "onerror:CONNECTING"
    /\ UNCHANGED <<connectCount, everOpened, lastDelivered, messageSerial, notFoundId,
                   connectsAtFlag>>

ReconnectTimerFires ==
    /\ reconnectTimeoutRef.pending
    /\ connectCount < MaxConnects
    /\ LET r == ReconnectTimerRefs(Refs, hookProps.diagramId, connectCount + 1)
       IN  /\ SetRefs(r)
           /\ CountConnects(r)
    /\ lastHandler' = "reconnect"
    /\ UNCHANGED <<everOpened, lastDelivered, messageSerial, notFoundId, connectsAtFlag>>

\* One callback of those connect() installs: onopen, onmessage, onerror, or
\* the callback of the reconnect timer that onerror arms. (As the code
\* stands onerror never arms that timer: see C2.)
Callbacks == {"onopen", "onmessage", "onerror:CLOSED", "onerror:CONNECTING",
              "reconnect"}

\* The callbacks that never reach the page's onUpdate.
SilentCallback(cb) ==
    CASE cb = "onopen"             -> OnOpen
      [] cb = "onerror:CLOSED"     -> OnErrorClosed
      [] cb = "onerror:CONNECTING" -> OnErrorConnecting
      [] cb = "reconnect"          -> ReconnectTimerFires

ConnectCallback ==
    /\ hookMounted
    /\ \E cb \in Callbacks :
          CASE cb = "onmessage" -> \E msg \in Messages : OnMessage(msg)
            [] OTHER            -> SilentCallback(cb)
    /\ UNCHANGED <<hookProps, hookMounted, hasCleanup>>
    /\ UNCHANGED <<mergeVars, editorVars, dedupVars, dialogVars, retryVars>>

HookInit ==
    /\ MergeIdle /\ HookIdle /\ EditorIdle /\ DedupIdle
    /\ DialogIdle /\ RetryIdle

HookNext ==
    \/ \E props \in HookProps : Render(props)
    \/ Unmount
    \/ ConnectCallback

SpecHook == HookInit /\ [][HookNext]_vars

(***************************************************************************)
(* The editor page as a state machine. A handler's state updates, the      *)
(* render that commits them and the effects that run after that render     *)
(* are one step.                                                           *)
(***************************************************************************)
MaxList == 2            \* bound: length of the class and association lists
MaxPayload == 2         \* bound: length of an externally supplied list
MaxDeferred == 1        \* bound: deferred updateClass callbacks pending at once
MaxInFlight == 1        \* bound: updateDiagram requests in flight at once
MaxVersion == 3         \* bound: diagram versions handed out by the backend

\* The state as it is, for a commit to start from. newClasses,
\* newAssociations and newDiagram say whether the setter was given a new
\* object (a dependency of an effect changes by identity, not by content).
Same ==
    [classes |-> classes, newClasses |-> FALSE,
     associations |-> associations, newAssociations |-> FALSE,
     diagram |-> currentDiagram, newDiagram |-> FALSE,
     shared |-> isSharedDiagram, loading |-> isLoading,
     unsaved |-> hasUnsavedChanges, change |-> lastChange]

\* The render that commits n, then the effect that flags unsaved changes
\* (dependencies classes, associations, isLoading) and the autosave effect
\* (dependencies classes, associations, currentDiagram, isSharedDiagram),
\* whose cleanup clears the timer of its previous run.
Commit(n) ==
    /\ classes' = n.classes
    /\ associations' = n.associations
    /\ currentDiagram' = n.diagram
    /\ isSharedDiagram' = n.shared
    /\ isLoading' = n.loading
    /\ hasUnsavedChanges' =
          IF (n.newClasses \/ n.newAssociations \/ n.loading # isLoading)
                 /\ ~n.loading
          THEN TRUE
          ELSE n.unsaved
    /\ autosaveTimer' =
          IF n.newClasses \/ n.newAssociations \/ n.newDiagram
                 \/ n.shared # isSharedDiagram
          THEN AutosaveEffect(n.diagram, n.classes, isDraggingRef)
          ELSE autosaveTimer
    /\ lastChange' = n.change
    /\ autosavesSinceChange' =
          IF n.newClasses \/ n.newAssociations THEN 0 ELSE autosavesSinceChange

\* The handlers below are reachable once the spinner is gone.
\* History: the values of lastChange that stand for a local edit.
LocalEdits == {"edit", "removeClass"}

Rendered == ~isLoading

\* loadDiagram, when the diagram is fetched (otherwise the page is left):
\* the stored lists, or those of the localStorage backup, filtered.
LoadDiagram(id, cls, assocs) ==
    /\ isLoading
    /\ Commit([Same EXCEPT !.diagram = [id |-> id, version |-> 1],
                           !.newDiagram = TRUE,
                           !.classes = FilterFirstById(cls), !.newClasses = TRUE,
                           !.associations = FilterFirstById(assocs),
                           !.newAssociations = TRUE,
                           !.loading = FALSE, !.change = "load"])
    /\ UNCHANGED <<isSaving, isDraggingRef, dragTimeoutRef, deferredUpdates,
                   pendingSaves>>
    /\ UNCHANGED <<mergeVars, hookVars, dedupVars, dialogVars, retryVars, canvasVars>>

\* handleJoinDiagram, when the token is found and active.
HandleJoinDiagram(cls, assocs) ==
    /\ Rendered
    /\ Commit([Same EXCEPT !.diagram = [id |-> "shared-t1", version |-> 1],
                           !.newDiagram = TRUE, !.shared = TRUE,
                           !.classes = FilterFirstById(cls), !.newClasses = TRUE,
                           !.associations = FilterFirstById(assocs),
                           !.newAssociations = TRUE, !.change = "load"])
    /\ UNCHANGED <<isSaving, isDraggingRef, dragTimeoutRef, deferredUpdates,
                   pendingSaves>>
    /\ UNCHANGED <<mergeVars, hookVars, dedupVars, dialogVars, retryVars, canvasVars>>

AddClass(newClass) ==
    /\ Rendered
    /\ Len(classes) < MaxList
    /\ IF SomeId(classes, newClass.id)
       THEN UNCHANGED <<editorState, autosaveTimer, editorHistory>>
       ELSE Commit([Same EXCEPT !.classes = Append(classes, newClass),
                                !.newClasses = TRUE, !.change = "edit"])
    /\ UNCHANGED <<isSaving, isDraggingRef, dragTimeoutRef, deferredUpdates,
                   pendingSaves>>
    /\ UNCHANGED <<mergeVars, hookVars, dedupVars, dialogVars, retryVars, canvasVars>>

\* updateClass: the state update is deferred to a timer of 0 ms; a move also
\* sets the drag flag and restarts the timer that clears it.
\* The call of updateClass, on the page's variables alone.
CallUpdateClass(id, patch) ==
    /\ Len(deferredUpdates) < MaxDeferred
    /\ deferredUpdates' = Append(deferredUpdates, [id |-> id, patch |-> patch])
    /\ IF IsPositionPatch(patch)
       THEN /\ isDraggingRef' = TRUE
            /\ dragTimeoutRef' = Timer(dragResetDelay)
       ELSE UNCHANGED <<isDraggingRef, dragTimeoutRef>>
    /\ UNCHANGED <<editorState, autosaveTimer, pendingSaves, editorHistory>>

UpdateClass(id, patch) ==
    /\ Rendered
    /\ SomeId(classes, id)
    /\ CallUpdateClass(id, patch)
    /\ UNCHANGED <<mergeVars, hookVars, dedupVars, dialogVars, retryVars, canvasVars>>

\* The deferred callback of updateClass with a setter that puts the patch
\* into the list when the class is no longer there.
RunDeferredUpdate_Recreates ==
    /\ deferredUpdates # <<>>
    /\ LET u == Head(deferredUpdates)
       IN  Commit([Same EXCEPT
                      !.classes = IF SomeId(classes, u.id)
                                  THEN PatchClass(classes, u.id, u.patch)
                                  ELSE Append(classes, ObjectSpread([id |-> u.id],
                                                                    u.patch)),
                      !.newClasses = TRUE, !.change = "edit"])
    /\ deferredUpdates' = Tail(deferredUpdates)
    /\ UNCHANGED <<isSaving, isDraggingRef, dragTimeoutRef, pendingSaves>>
    /\ UNCHANGED <<mergeVars, hookVars, dedupVars, dialogVars, retryVars, canvasVars>>

\* The deferred callback of updateClass.  History: "staleUpdate" records a
\* callback that found its class gone.
RunDeferredUpdate ==
    /\ deferredUpdates # <<>>
    /\ LET u == Head(deferredUpdates)
       IN  IF ~SomeId(classes, u.id)
           THEN /\ lastChange' = "staleUpdate"
                /\ UNCHANGED <<editorState, autosaveTimer, autosavesSinceChange>>
           ELSE Commit([Same EXCEPT !.classes = PatchClass(classes, u.id, u.patch),
                                    !.newClasses = TRUE, !.change = "edit"])
    /\ deferredUpdates' = Tail(deferredUpdates)
    /\ UNCHANGED <<isSaving, isDraggingRef, dragTimeoutRef, pendingSaves>>
    /\ UNCHANGED <<mergeVars, hookVars, dedupVars, dialogVars, retryVars, canvasVars>>

\* The callback of the drag timer.
DragTimeoutCallback ==
    /\ isDraggingRef' = FALSE
    /\ dragTimeoutRef' = NoTimer
    /\ UNCHANGED <<editorState, autosaveTimer, deferredUpdates, pendingSaves,
                   editorHistory>>
    /\ UNCHANGED <<mergeVars, hookVars, dedupVars, dialogVars, retryVars, canvasVars>>

DragTimeoutFires ==
    /\ dragTimeoutRef.armed /\ dragTimeoutRef.remaining = 0
    /\ DragTimeoutCallback

RemoveClass(id) ==
    /\ Rendered
    /\ SomeId(classes, id)
    /\ Commit([Same EXCEPT !.classes = WithoutId(classes, id), !.newClasses = TRUE,
                           !.associations = WithoutEndpoint(associations, id),
                           !.newAssociations = TRUE, !.change = "removeClass"])
    /\ UNCHANGED <<isSaving, isDraggingRef, dragTimeoutRef, deferredUpdates,
                   pendingSaves>>
    /\ UNCHANGED <<mergeVars, hookVars, dedupVars, dialogVars, retryVars, canvasVars>>

\* The call of addAssociation, on the page's variables alone.
CallAddAssociation(association) ==
    /\ IF SomeId(associations, association.id)
       THEN UNCHANGED <<editorState, autosaveTimer, editorHistory>>
       ELSE Commit([Same EXCEPT !.associations = Append(associations, association),
                                !.newAssociations = TRUE, !.change = "edit"])
    /\ UNCHANGED <<isSaving, isDraggingRef, dragTimeoutRef, deferredUpdates,
                   pendingSaves>>

AddAssociation(association) ==
    /\ Rendered
    /\ Len(associations) < MaxList
    /\ CallAddAssociation(association)
    /\ UNCHANGED <<mergeVars, hookVars, dedupVars, dialogVars, retryVars, canvasVars>>

UpdateAssociation(updatedAssociation) ==
    /\ Rendered
    /\ SomeId(associations, updatedAssociation.id)
    /\ Commit([Same EXCEPT
                  !.associations = ReplaceAssociation(associations, updatedAssociation),
                  !.newAssociations = TRUE, !.change = "edit"])
    /\ UNCHANGED <<isSaving, isDraggingRef, dragTimeoutRef, deferredUpdates,
                   pendingSaves>>
    /\ UNCHANGED <<mergeVars, hookVars, dedupVars, dialogVars, retryVars, canvasVars>>

RemoveAssociation(id) ==
    /\ Rendered
    /\ SomeId(associations, id)
    /\ Commit([Same EXCEPT !.associations = WithoutId(associations, id),
                           !.newAssociations = TRUE, !.change = "edit"])
    /\ UNCHANGED <<isSaving, isDraggingRef, dragTimeoutRef, deferredUpdates,
                   pendingSaves>>
    /\ UNCHANGED <<mergeVars, hookVars, dedupVars, dialogVars, retryVars, canvasVars>>

HandleGenerateClasses(newClasses) ==
    /\ Rendered
    /\ Len(GenerateInto(classes, newClasses)) <= MaxList
    /\ Commit([Same EXCEPT !.classes = GenerateInto(classes, newClasses),
                           !.newClasses = TRUE, !.change = "edit"])
    /\ UNCHANGED <<isSaving, isDraggingRef, dragTimeoutRef, deferredUpdates,
                   pendingSaves>>
    /\ UNCHANGED <<mergeVars, hookVars, dedupVars, dialogVars, retryVars, canvasVars>>

HandleGenerateAssociations(newAssociations) ==
    /\ Rendered
    /\ Len(GenerateInto(associations, newAssociations)) <= MaxList
    /\ Commit([Same EXCEPT
                  !.associations = GenerateInto(associations, newAssociations),
                  !.newAssociations = TRUE, !.change = "edit"])
    /\ UNCHANGED <<isSaving, isDraggingRef, dragTimeoutRef, deferredUpdates,
                   pendingSaves>>
    /\ UNCHANGED <<mergeVars, hookVars, dedupVars, dialogVars, retryVars, canvasVars>>

HandleModifyDiagram(newClasses, newAssociations) ==
    /\ Rendered
    /\ Commit([Same EXCEPT !.classes = FilterFirstById(newClasses),
                           !.newClasses = TRUE,
                           !.associations = FilterFirstById(newAssociations),
                           !.newAssociations = TRUE, !.change = "edit"])
    /\ UNCHANGED <<isSaving, isDraggingRef, dragTimeoutRef, deferredUpdates,
                   pendingSaves>>
    /\ UNCHANGED <<mergeVars, hookVars, dedupVars, dialogVars, retryVars, canvasVars>>

\* shouldEnableRealtime
ShouldEnableRealtime == currentDiagram # NoDiagram /\ ~isLoading

\* handleRealtimeUpdate without the test of the drag flag.
ApplyRealtimeUpdate_IgnoresFlag(newClasses, newAssociations) ==
    /\ Commit([Same EXCEPT
                  !.classes = FilterFirstById(newClasses),
                  !.newClasses = (FilterFirstById(newClasses) # classes),
                  !.associations = FilterFirstById(newAssociations),
                  !.newAssociations =
                      (FilterFirstById(newAssociations) # associations),
                  !.change = "remote"])
    /\ UNCHANGED <<isSaving, isDraggingRef, dragTimeoutRef, deferredUpdates,
                   pendingSaves>>

\* handleRealtimeUpdate with setters that return the incoming list whether or
\* not it differs from the present one.
ApplyRealtimeUpdate_AlwaysReplaces(newClasses, newAssociations) ==
    /\ IF isDraggingRef
       THEN UNCHANGED <<editorState, autosaveTimer, editorHistory>>
       ELSE Commit([Same EXCEPT
                       !.classes = FilterFirstById(newClasses),
                       !.newClasses = TRUE,
                       !.associations = FilterFirstById(newAssociations),
                       !.newAssociations = TRUE,
                       !.change = "remote"])
    /\ UNCHANGED <<isSaving, isDraggingRef, dragTimeoutRef, deferredUpdates,
                   pendingSaves>>

\* handleRealtimeUpdate, on the editor's variables alone: nothing during a
\* drag; otherwise each list is replaced when its JSON differs from that of
\* the present list (the lists of the model are JSON values, so their JSON
\* texts differ exactly when they do).  History: "remoteSame" records a
\* snapshot that replaced neither list.
ApplyRealtimeUpdate(newClasses, newAssociations) ==
    /\ IF isDraggingRef
       THEN UNCHANGED <<editorState, autosaveTimer, editorHistory>>
       ELSE LET uniqueClasses == FilterFirstById(newClasses)
                uniqueAssociations == FilterFirstById(newAssociations)
                replaced == uniqueClasses # classes
                                \/ uniqueAssociations # associations
            IN  Commit([Same EXCEPT
                           !.classes = uniqueClasses,
                           !.newClasses = (uniqueClasses # classes),
                           !.associations = uniqueAssociations,
                           !.newAssociations = (uniqueAssociations # associations),
                           !.change = IF replaced THEN "remote" ELSE "remoteSame"])
    /\ UNCHANGED <<isSaving, isDraggingRef, dragTimeoutRef, deferredUpdates,
                   pendingSaves>>

HandleRealtimeUpdate(newClasses, newAssociations) ==
    /\ ShouldEnableRealtime
    /\ ApplyRealtimeUpdate(newClasses, newAssociations)
    /\ UNCHANGED <<mergeVars, hookVars, dedupVars, dialogVars, retryVars, canvasVars>>

\* What a save sends.
SaveRequest(kind) ==
    [diagramId |-> currentDiagram.id, classes |-> classes,
     associations |-> associations, kind |-> kind]

\* autoSave, the callback of the autosave timer, up to its request.
AutoSaveFires ==
    /\ autosaveTimer.armed /\ autosaveTimer.remaining = 0
    /\ Len(pendingSaves) < MaxInFlight
    /\ autosaveTimer' = NoTimer
    /\ pendingSaves' = Append(pendingSaves, SaveRequest("auto"))
    /\ autosavesSinceChange' = autosavesSinceChange + 1
    /\ UNCHANGED <<editorState, isDraggingRef, dragTimeoutRef, deferredUpdates,
                   lastChange>>
    /\ UNCHANGED <<mergeVars, hookVars, dedupVars, dialogVars, retryVars, canvasVars>>

\* handleSave, up to its request (the button is disabled while saving and
\* while nothing is flagged unsaved).
HandleSave ==
    /\ Rendered
    /\ currentDiagram # NoDiagram
    /\ ~isSaving /\ hasUnsavedChanges
    /\ Len(pendingSaves) < MaxInFlight
    /\ isSaving' = TRUE
    /\ pendingSaves' = Append(pendingSaves, SaveRequest("manual"))
    /\ lastChange' = "save"
    /\ UNCHANGED <<currentDiagram, isSharedDiagram, isLoading, hasUnsavedChanges,
                   classes, associations, isDraggingRef, dragTimeoutRef,
                   autosaveTimer, deferredUpdates, autosavesSinceChange>>
    /\ UNCHANGED <<mergeVars, hookVars, dedupVars, dialogVars, retryVars, canvasVars>>

\* The response to the oldest request: what autoSave and handleSave do
\* after their await. The autosave of a shared diagram does nothing more.
SaveCompletes(ok) ==
    /\ pendingSaves # <<>>
    /\ currentDiagram.version < MaxVersion
    /\ LET req == Head(pendingSaves)
           updatedDiagram == [id |-> req.diagramId,
                              version |-> currentDiagram.version + 1]
       IN  /\ IF ok /\ ~(req.kind = "auto" /\ StartsWithShared(req.diagramId))
              THEN Commit([Same EXCEPT !.diagram = updatedDiagram,
                                       !.newDiagram = TRUE, !.unsaved = FALSE])
              ELSE UNCHANGED <<currentDiagram, isSharedDiagram, isLoading,
                               hasUnsavedChanges, classes, associations,
                               autosaveTimer, editorHistory>>
           /\ isSaving' = IF req.kind = "manual" THEN FALSE ELSE isSaving
    /\ pendingSaves' = Tail(pendingSaves)
    /\ UNCHANGED <<isDraggingRef, dragTimeoutRef, deferredUpdates>>
    /\ UNCHANGED <<mergeVars, hookVars, dedupVars, dialogVars, retryVars, canvasVars>>

\* Time passes, dragResetDelay at a time, as long as no callback is due.
Elapse(timer) ==
    IF timer.armed THEN [timer EXCEPT !.remaining = @ - dragResetDelay] ELSE timer

Due(timer) == timer.armed /\ timer.remaining = 0

Tick ==
    /\ deferredUpdates = <<>>
    /\ \/ dragTimeoutRef.armed
       \/ autosaveTimer.armed
       \/ msSinceDragEnd \in 0..(dragResetDelay - 1)
    /\ ~Due(dragTimeoutRef) /\ ~Due(autosaveTimer)
    /\ dragTimeoutRef' = Elapse(dragTimeoutRef)
    /\ autosaveTimer' = Elapse(autosaveTimer)
    /\ msSinceDragEnd' = IF msSinceDragEnd < 0 THEN msSinceDragEnd
                         ELSE Min(msSinceDragEnd + dragResetDelay, dragResetDelay)
    /\ UNCHANGED <<editorState, isDraggingRef, deferredUpdates, pendingSaves,
                   editorHistory, draggedClass, pendingUpdateRef, error>>
    /\ UNCHANGED <<mergeVars, hookVars, dedupVars, dialogVars, retryVars>>

EditorInit ==
    /\ MergeIdle /\ HookIdle /\ EditorIdle /\ DedupIdle
    /\ DialogIdle /\ RetryIdle

(***************************************************************************)
(* The editor's lists under every handler that writes them, payloads       *)
(* arbitrary within the bounds. Saving is left out (it writes neither      *)
(* list), and of the passage of time only this: the drag timer fires once  *)
(* the deferred updates queued before it have run.                         *)
(***************************************************************************)
PayloadClassValues ==
    [id : EditorClassIds, name : {"User"}, position : {"P1"}]
        \union {[id |-> "c1", name |-> "User", position |-> "P2"]}

PayloadAssocValues ==
    [id : EditorAssocIds, fromClassId : {"c1"}, toClassId : {"c2"}]

UpdatedAssocValues ==
    [id : EditorAssocIds, fromClassId : {"c2"}, toClassId : {"c2"}]

ClassPayloads == SeqsUpTo(PayloadClassValues, MaxPayload)

AssocPayloads == SeqsUpTo(PayloadAssocValues, MaxPayload)

DragDelayElapses ==
    /\ dragTimeoutRef.armed
    /\ deferredUpdates = <<>>
    /\ DragTimeoutCallback

EditorNext ==
    \/ \E cls \in ClassPayloads, assocs \in AssocPayloads :
          LoadDiagram("d1", cls, assocs)
    \/ \E cls \in ClassPayloads, assocs \in AssocPayloads :
          HandleJoinDiagram(cls, assocs)
    \/ \E c \in PayloadClassValues : AddClass(c)
    \/ \E id \in EditorClassIds, patch \in ClassPatches : UpdateClass(id, patch)
    \/ RunDeferredUpdate
    \/ DragDelayElapses
    \/ \E id \in EditorClassIds : RemoveClass(id)
    \/ \E a \in PayloadAssocValues : AddAssociation(a)
    \/ \E a \in UpdatedAssocValues : UpdateAssociation(a)
    \/ \E id \in EditorAssocIds : RemoveAssociation(id)
    \/ \E cls \in ClassPayloads : HandleGenerateClasses(cls)
    \/ \E assocs \in AssocPayloads : HandleGenerateAssociations(assocs)
    \/ \E cls \in ClassPayloads, assocs \in AssocPayloads :
          HandleModifyDiagram(cls, assocs)
    \/ \E cls \in ClassPayloads, assocs \in AssocPayloads :
          HandleRealtimeUpdate(cls, assocs)

SpecEditor == EditorInit /\ [][EditorNext]_vars

(***************************************************************************)
(* Autosave in time: the editor with its timers and its save requests,     *)
(* over a small diagram.                                                   *)
(***************************************************************************)
C1User == [id |-> "c1", name |-> "User", position |-> "P1"]
C1Moved == [id |-> "c1", name |-> "User", position |-> "P2"]
A1 == [id |-> "a1", fromClassId |-> "c1", toClassId |-> "c1"]

StoredClassLists == {<<>>, <<C1User>>, <<C1Moved>>}
StoredAssocLists == {<<>>, <<A1>>}

AutosaveNext ==
    \/ \E id \in {"d1", "shared-t1"}, cls \in StoredClassLists,
          assocs \in StoredAssocLists : LoadDiagram(id, cls, assocs)
    \/ AddClass(C1User)
    \/ \E id \in EditorClassIds, patch \in ClassPatches : UpdateClass(id, patch)
    \/ RunDeferredUpdate
    \/ DragTimeoutFires
    \/ \E id \in EditorClassIds : RemoveClass(id)
    \/ AddAssociation(A1)
    \/ \E cls \in StoredClassLists, assocs \in StoredAssocLists :
          HandleRealtimeUpdate(cls, assocs)
    \/ AutoSaveFires
    \/ HandleSave
    \/ \E ok \in BOOLEAN : SaveCompletes(ok)
    \/ Tick

SpecAutosave == EditorInit /\ [][AutosaveNext]_vars

\* Saving alone: classes come and go, the autosave timer runs, and both
\* kinds of save are issued and answered.
SaveNext ==
    \/ \E id \in {"d1", "shared-t1"}, cls \in StoredClassLists,
          assocs \in StoredAssocLists : LoadDiagram(id, cls, assocs)
    \/ AddClass(C1User)
    \/ \E id \in EditorClassIds : RemoveClass(id)
    \/ AutoSaveFires
    \/ HandleSave
    \/ \E ok \in BOOLEAN : SaveCompletes(ok)
    \/ Tick

SpecSave == EditorInit /\ [][SaveNext]_vars

(***************************************************************************)
(* DiagramCanvas: the pointer gesture that moves a class.  The canvas is   *)
(* mounted once the page has loaded; its moves reach the page through      *)
(* onUpdateClass = updateClass.                                            *)
(***************************************************************************)
Positions == {"P1", "P2"}

HandleMouseDown(classId) ==
    /\ Rendered
    /\ SomeId(classes, classId)
    /\ draggedClass' = classId
    /\ msSinceDragEnd' = -1
    /\ UNCHANGED <<pendingUpdateRef, error, editorState, editorTimers,
                   editorHistory>>
    /\ UNCHANGED <<mergeVars, hookVars, dedupVars, dialogVars, retryVars>>

\* far: the pointer is more than the threshold away from the last position
\* reported, so the animation frame hands the move to onUpdateClass.
HandleMouseMove(position, far) ==
    /\ Rendered
    /\ draggedClass # Null
    /\ pendingUpdateRef' = [id |-> draggedClass, position |-> position]
    /\ IF far
       THEN CallUpdateClass(draggedClass, [position |-> position])
       ELSE UNCHANGED <<editorState, editorTimers, editorHistory>>
    /\ UNCHANGED <<draggedClass, msSinceDragEnd, error>>
    /\ UNCHANGED <<mergeVars, hookVars, dedupVars, dialogVars, retryVars>>

HandleMouseUp ==
    /\ Rendered
    /\ IF pendingUpdateRef # NoPending
       THEN CallUpdateClass(pendingUpdateRef.id,
                            [position |-> pendingUpdateRef.position])
       ELSE UNCHANGED <<editorState, editorTimers, editorHistory>>
    /\ pendingUpdateRef' = NoPending
    /\ draggedClass' = Null
    /\ msSinceDragEnd' =
          IF draggedClass # Null /\ pendingUpdateRef # NoPending THEN 0 ELSE -1
    /\ UNCHANGED error
    /\ UNCHANGED <<mergeVars, hookVars, dedupVars, dialogVars, retryVars>>

DragNext ==
    \/ \E cls \in StoredClassLists, assocs \in StoredAssocLists :
          LoadDiagram("d1", cls, assocs)
    \/ \E classId \in EditorClassIds : HandleMouseDown(classId)
    \/ \E position \in Positions, far \in BOOLEAN :
          HandleMouseMove(position, far)
    \/ HandleMouseUp
    \/ RunDeferredUpdate
    \/ DragTimeoutFires
    \/ \E cls \in StoredClassLists, assocs \in StoredAssocLists :
          HandleRealtimeUpdate(cls, assocs)
    \/ AutoSaveFires
    \/ \E ok \in BOOLEAN : SaveCompletes(ok)
    \/ Tick

SpecDrag == EditorInit /\ [][DragNext]_vars

\* Remote snapshots against local additions and the autosave they arm, with
\* no gesture in progress.
SnapshotNext ==
    \/ \E cls \in StoredClassLists, assocs \in StoredAssocLists :
          LoadDiagram("d1", cls, assocs)
    \/ \E cls \in StoredClassLists, assocs \in StoredAssocLists :
          HandleRealtimeUpdate(cls, assocs)
    \/ AddClass(C1User)
    \/ AutoSaveFires
    \/ \E ok \in BOOLEAN : SaveCompletes(ok)
    \/ Tick

SpecSnapshot == EditorInit /\ [][SnapshotNext]_vars

(***************************************************************************)
(* AIAssistantPanel: generate and modify.  What the AI service sends back  *)
(* is a text; the service functions turn it into a response, and the panel *)
(* either hands the response's diagram to the page or shows an error.      *)
(***************************************************************************)
\* What a call of ai.models.generateContent can end in: a rejection, a text
\* that is not JSON, JSON whose classes fail validateUMLClassesJSON, JSON
\* without an "associations" key, or JSON with both lists.
TextKinds == {"throws", "notJSON", "badClasses", "noAssociations", "diagram"}

\* The lists a text may carry: c1 alone or with c2, and one association
\* from c1 to c2, which resolves only when c2 comes with it.
AiClassLists ==
    {<<>>, <<C1User>>, <<C1User, [id |-> "c2", name |-> "User", position |-> "P1"]>>}

AiAssocLists == {<<>>, <<[id |-> "a1", fromClassId |-> "c1", toClassId |-> "c2"]>>}

AiTexts == [kind : TextKinds, classes : AiClassLists,
            associations : AiAssocLists]

\* validateUMLDiagramJSON without the validation of the associations.
ValidateUMLDiagramJSON_ClassesOnly(text) ==
    IF text.kind = "notJSON" THEN [isValid |-> FALSE, error |-> "Invalid JSON"]
    ELSE IF text.kind = "badClasses"
    THEN [isValid |-> FALSE, error |-> "Classes validation failed"]
    ELSE IF text.kind = "noAssociations"
    THEN [isValid |-> TRUE, diagram |-> [classes |-> text.classes]]
    ELSE [isValid |-> TRUE,
          diagram |-> [classes |-> text.classes,
                       associations |-> text.associations]]

ValidateUMLDiagramJSON(text) ==
    IF text.kind = "notJSON" THEN [isValid |-> FALSE, error |-> "Invalid JSON"]
    ELSE IF text.kind = "badClasses"
    THEN [isValid |-> FALSE, error |-> "Classes validation failed"]
    ELSE IF text.kind = "noAssociations"
    THEN [isValid |-> TRUE, diagram |-> [classes |-> text.classes]]
    ELSE IF ~EndpointsResolve(text.classes, text.associations)
    THEN [isValid |-> FALSE, error |-> "Associations validation failed"]
    ELSE [isValid |-> TRUE,
          diagram |-> [classes |-> text.classes,
                       associations |-> text.associations]]

\* The response of generateUMLDiagramFromPrompt and of modifyExistingDiagram;
\* merge tells the two apart.  Mapping over absent associations throws, and
\* the catch block answers as it does for a rejected call.
ServiceResponse(text, merge) ==
    LET validation == ValidateUMLDiagramJSON(text)
    IN  IF text.kind = "throws"
        THEN [success |-> FALSE, message |-> "Error communicating with AI service",
              error |-> "rejected"]
        ELSE IF ~validation.isValid
        THEN [success |-> FALSE, message |-> "Failed to generate valid UML diagram",
              error |-> validation.error]
        ELSE IF "associations" \notin DOMAIN validation.diagram
        THEN [success |-> FALSE, message |-> "Error communicating with AI service",
              error |-> "TypeError"]
        ELSE [success |-> TRUE, message |-> "Successfully generated",
              diagram |->
                 IF merge
                 THEN [classes |-> MergeClasses(classes, validation.diagram.classes),
                       associations |->
                          MergeAssociations(associations,
                                            validation.diagram.associations)]
                 ELSE validation.diagram]

\* response.success && response.diagram && response.diagram.classes
\*     && response.diagram.associations
HasDiagram(response) == response.success /\ "diagram" \in DOMAIN response

\* response.error || response.message
ErrorOrMessage(response) ==
    IF "error" \in DOMAIN response /\ response.error # ""
    THEN response.error ELSE response.message

\* handleGenerate with a text prompt: both callbacks of the page run in the
\* same event.
HandleGenerate(text) ==
    /\ Rendered
    /\ LET response == ServiceResponse(text, FALSE)
       IN  IF HasDiagram(response)
           THEN /\ Len(GenerateInto(classes, response.diagram.classes)) <= MaxList
                /\ Len(GenerateInto(associations, response.diagram.associations))
                      <= MaxList
                /\ Commit([Same EXCEPT
                      !.classes = GenerateInto(classes, response.diagram.classes),
                      !.newClasses = TRUE,
                      !.associations =
                          GenerateInto(associations, response.diagram.associations),
                      !.newAssociations = TRUE, !.change = "edit"])
                /\ error' = Null
           ELSE /\ error' = ErrorOrMessage(response)
                /\ UNCHANGED <<editorState, autosaveTimer, editorHistory>>
    /\ UNCHANGED <<isSaving, isDraggingRef, dragTimeoutRef, deferredUpdates,
                   pendingSaves, draggedClass, pendingUpdateRef, msSinceDragEnd>>
    /\ UNCHANGED <<mergeVars, hookVars, dedupVars, dialogVars, retryVars>>

\* handleModifyDiagram of the panel; the page passes onModifyDiagram.
HandleModify(text) ==
    /\ Rendered
    /\ LET response == ServiceResponse(text, TRUE)
       IN  IF HasDiagram(response)
           THEN /\ Len(response.diagram.classes) <= MaxList
                /\ Len(response.diagram.associations) <= MaxList
                /\ Commit([Same EXCEPT
                      !.classes = FilterFirstById(response.diagram.classes),
                      !.newClasses = TRUE,
                      !.associations =
                          FilterFirstById(response.diagram.associations),
                      !.newAssociations = TRUE, !.change = "edit"])
                /\ error' = Null
           ELSE /\ error' = ErrorOrMessage(response)
                /\ UNCHANGED <<editorState, autosaveTimer, editorHistory>>
    /\ UNCHANGED <<isSaving, isDraggingRef, dragTimeoutRef, deferredUpdates,
                   pendingSaves, draggedClass, pendingUpdateRef, msSinceDragEnd>>
    /\ UNCHANGED <<mergeVars, hookVars, dedupVars, dialogVars, retryVars>>

AssistantNext ==
    \/ \E cls \in ClassPayloads, assocs \in AssocPayloads :
          LoadDiagram("d1", cls, assocs)
    \/ \E text \in AiTexts : HandleGenerate(text)
    \/ \E text \in AiTexts : HandleModify(text)
    \/ \E id \in EditorClassIds : RemoveClass(id)
    \/ \E a \in UpdatedAssocValues : UpdateAssociation(a)

SpecAssistant == EditorInit /\ [][AssistantNext]_vars

\* Deferred class updates against every way a class leaves the list.
DeferredNext ==
    \/ \E cls \in AiClassLists : LoadDiagram("d1", cls, <<>>)
    \/ \E id \in EditorClassIds, patch \in ClassPatches : UpdateClass(id, patch)
    \/ RunDeferredUpdate
    \/ DragTimeoutFires
    \/ \E id \in EditorClassIds : RemoveClass(id)
    \/ \E text \in AiTexts : HandleModify(text)
    \/ \E cls \in AiClassLists : HandleRealtimeUpdate(cls, <<>>)
    \/ Tick

SpecDeferred == EditorInit /\ [][DeferredNext]_vars

(***************************************************************************)
(* Deduplication by id on its own: both filters applied to one list.       *)
(***************************************************************************)
MaxDedup == 3           \* bound: length of the list to deduplicate

DedupInputs ==
    SeqsUpTo(EditorClassValues, MaxDedup)
        \union SeqsUpTo(PayloadAssocValues \union UpdatedAssocValues, MaxDedup)

DedupInit ==
    /\ MergeIdle /\ HookIdle /\ EditorIdle /\ DialogIdle /\ RetryIdle
    /\ dedupInput \in DedupInputs
    /\ dedupByIndex = <<>>
    /\ dedupBySeen = <<>>
    /\ dedupDone = FALSE

Deduplicate ==
    /\ ~dedupDone
    /\ dedupByIndex' = FilterFirstById(dedupInput)
    /\ dedupBySeen' = FilterSeen(dedupInput)
    /\ dedupDone' = TRUE
    /\ UNCHANGED <<dedupInput, mergeVars, hookVars, editorVars, dialogVars, retryVars>>

DedupNext == Deduplicate

SpecDedup == DedupInit /\ [][DedupNext]_vars

(***************************************************************************)
(* The editor page with the hook attached: the page passes its diagram to  *)
(* useRealtimeSync, and the hook's onUpdate is handleRealtimeUpdate.       *)
(***************************************************************************)
\* The snapshots of the messages, as lists: s1 is a plain diagram, s2
\* carries a repeated id.
SnapshotClasses(snapshot) ==
    IF snapshot = "s1" THEN <<C1User>> ELSE <<C1Moved, C1User>>

SnapshotAssociations(snapshot) ==
    IF snapshot = "s1" THEN <<>> ELSE <<A1>>

PageUsers == UserIds \union {Undefined}

PageProps(user) ==
    [diagramId |-> IF ShouldEnableRealtime THEN currentDiagram.id ELSE Null,
     enabled |-> ShouldEnableRealtime,
     currentUserId |-> user]

\* The render that follows a change of the page's state or of the user.
PageRender == \E user \in PageUsers : Render(PageProps(user))

PageSilentCallback ==
    /\ hookMounted
    /\ \E cb \in Callbacks \ {"onmessage"} : SilentCallback(cb)
    /\ UNCHANGED <<hookProps, hookMounted, hasCleanup>>
    /\ UNCHANGED <<mergeVars, editorVars, dedupVars, dialogVars, retryVars>>

PageMessage(msg) ==
    /\ hookMounted
    /\ OnMessage(msg)
    /\ IF CallsOnUpdate(msg, hookProps.currentUserId)
       THEN /\ ApplyRealtimeUpdate(SnapshotClasses(msg.diagram_data),
                                   SnapshotAssociations(msg.diagram_data))
            /\ UNCHANGED canvasVars
       ELSE UNCHANGED editorVars
    /\ UNCHANGED <<hookProps, hookMounted, hasCleanup>>
    /\ UNCHANGED <<mergeVars, dedupVars, dialogVars, retryVars>>

RealtimeNext ==
    \/ \E cls \in StoredClassLists, assocs \in StoredAssocLists :
          LoadDiagram("d1", cls, assocs)
    \/ PageRender
    \/ PageSilentCallback
    \/ \E msg \in Messages : PageMessage(msg)
    \/ AddClass(C1User)
    \/ \E id \in EditorClassIds, patch \in ClassPatches : UpdateClass(id, patch)
    \/ RunDeferredUpdate
    \/ DragDelayElapses

SpecRealtime == EditorInit /\ [][RealtimeNext]_vars

(***************************************************************************)
(* The association editor: a dialog over the classes of the page, whose     *)
(* Save hands one association to the page's addAssociation.  The attributes *)
(* of the association class, inheritanceType and cascadeDelete are left     *)
(* out: no control reads them.                                              *)
(***************************************************************************)
MaxEmitted == 1         \* bound: associations the dialog hands over in one run

MULTIPLICITY_OPTIONS == {"1", "0..1", "*", "1..*", "0..*"}

RELATIONSHIP_TYPES == {"association", "inheritance", "aggregation", "composition"}

\* What is typed into the name field: nothing, a blank, a name.
AssociationClassNames == {"", " ", "Enrollment"}

\* String.prototype.trim, on those values.
trim(name) == IF name = " " THEN "" ELSE name

IsMany(multiplicity) == multiplicity \in {"*", "1..*", "0..*"}

isManyToMany == IsMany(fromMultiplicity) /\ IsMany(toMultiplicity)

canHaveAssociationClass == relationshipType = "association" /\ isManyToMany

canSave ==
    /\ fromClassId # "" /\ toClassId # "" /\ fromClassId # toClassId
    /\ (~hasAssociationClass \/ trim(associationClassName) # "")

SetDialogState(d) ==
    /\ fromClassId' = d.fromClassId
    /\ toClassId' = d.toClassId
    /\ fromMultiplicity' = d.fromMultiplicity
    /\ toMultiplicity' = d.toMultiplicity
    /\ relationshipType' = d.relationshipType
    /\ hasAssociationClass' = d.hasAssociationClass
    /\ associationClassName' = d.associationClassName

\* The toolbar mounts the dialog.
OpenAssociationEditor ==
    /\ Rendered
    /\ ~associationEditorOpen
    /\ Len(emitted) < MaxEmitted
    /\ associationEditorOpen' = TRUE
    /\ SetDialogState(DialogInitialState)
    /\ UNCHANGED <<emitted, editorVars>>
    /\ UNCHANGED <<mergeVars, hookVars, dedupVars, retryVars>>

\* The two class selects: the second offers every class but the one chosen
\* in the first.
SetFromClassId(id) ==
    /\ associationEditorOpen
    /\ SomeId(classes, id)
    /\ fromClassId' = id
    /\ UNCHANGED <<associationEditorOpen, toClassId, fromMultiplicity, toMultiplicity,
                   relationshipType, hasAssociationClass, associationClassName,
                   emitted, editorVars>>
    /\ UNCHANGED <<mergeVars, hookVars, dedupVars, retryVars>>

SetToClassId(id) ==
    /\ associationEditorOpen
    /\ SomeId(classes, id) /\ id # fromClassId
    /\ toClassId' = id
    /\ UNCHANGED <<associationEditorOpen, fromClassId, fromMultiplicity,
                   toMultiplicity, relationshipType, hasAssociationClass,
                   associationClassName, emitted, editorVars>>
    /\ UNCHANGED <<mergeVars, hookVars, dedupVars, retryVars>>

\* The two multiplicity selects, hidden for an inheritance.
SetMultiplicity(end, multiplicity) ==
    /\ associationEditorOpen
    /\ relationshipType # "inheritance"
    /\ fromMultiplicity' = IF end = "from" THEN multiplicity ELSE fromMultiplicity
    /\ toMultiplicity' = IF end = "to" THEN multiplicity ELSE toMultiplicity
    /\ UNCHANGED <<associationEditorOpen, fromClassId, toClassId, relationshipType,
                   hasAssociationClass, associationClassName, emitted, editorVars>>
    /\ UNCHANGED <<mergeVars, hookVars, dedupVars, retryVars>>

HandleRelationshipTypeChange(newType) ==
    /\ associationEditorOpen
    /\ relationshipType' = newType
    /\ IF newType # "association"
       THEN hasAssociationClass' = FALSE /\ associationClassName' = ""
       ELSE UNCHANGED <<hasAssociationClass, associationClassName>>
    /\ IF newType = "inheritance"
       THEN fromMultiplicity' = "1" /\ toMultiplicity' = "1"
       ELSE UNCHANGED <<fromMultiplicity, toMultiplicity>>
    /\ UNCHANGED <<associationEditorOpen, fromClassId, toClassId, emitted,
                   editorVars>>
    /\ UNCHANGED <<mergeVars, hookVars, dedupVars, retryVars>>

\* The checkbox, rendered while canHaveAssociationClass.
SetHasAssociationClass(checked) ==
    /\ associationEditorOpen
    /\ canHaveAssociationClass
    /\ hasAssociationClass' = checked
    /\ associationClassName' = IF checked THEN associationClassName ELSE ""
    /\ UNCHANGED <<associationEditorOpen, fromClassId, toClassId, fromMultiplicity,
                   toMultiplicity, relationshipType, emitted, editorVars>>
    /\ UNCHANGED <<mergeVars, hookVars, dedupVars, retryVars>>

\* The name field, rendered under the ticked checkbox.
SetAssociationClassName(name) ==
    /\ associationEditorOpen
    /\ canHaveAssociationClass /\ hasAssociationClass
    /\ associationClassName' = name
    /\ UNCHANGED <<associationEditorOpen, fromClassId, toClassId, fromMultiplicity,
                   toMultiplicity, relationshipType, hasAssociationClass, emitted,
                   editorVars>>
    /\ UNCHANGED <<mergeVars, hookVars, dedupVars, retryVars>>

\* The association handleSave builds; an associationClass left undefined is
\* a field that is not there.
NewAssociation(id) ==
    LET association ==
            [id |-> id, fromClassId |-> fromClassId, toClassId |-> toClassId,
             fromMultiplicity |-> fromMultiplicity,
             toMultiplicity |-> toMultiplicity,
             relationshipType |-> relationshipType]
    IN  IF /\ hasAssociationClass /\ trim(associationClassName) # ""
           /\ SomeId(classes, fromClassId) /\ SomeId(classes, toClassId)
        THEN ObjectSpread(association,
                          [associationClass |-> [name |-> associationClassName]])
        ELSE association

\* onClose: the dialog is unmounted and its state is gone.
Unmounted ==
    /\ associationEditorOpen' = FALSE
    /\ SetDialogState(DialogInitialState)

CancelAssociationEditor ==
    /\ associationEditorOpen
    /\ Unmounted
    /\ UNCHANGED <<emitted, editorVars>>
    /\ UNCHANGED <<mergeVars, hookVars, dedupVars, retryVars>>

\* A click on Add Association with neither the disabled state of the button
\* nor the test of handleSave.
AssociationEditorSave_Untested ==
    /\ associationEditorOpen
    /\ \E id \in EditorAssocIds :
          /\ ~SomeId(associations, id)
          /\ Len(associations) < MaxList
          /\ CallAddAssociation(NewAssociation(id))
          /\ emitted' = Append(emitted, NewAssociation(id))
          /\ Unmounted
    /\ UNCHANGED canvasVars
    /\ UNCHANGED <<mergeVars, hookVars, dedupVars, retryVars>>

\* A click on Add Association: nothing while the button is disabled
\* (!canSave); otherwise handleSave, with an id crypto.randomUUID() has not
\* given out before.
AssociationEditorSave ==
    /\ associationEditorOpen
    /\ IF canSave /\ fromClassId # "" /\ toClassId # "" /\ fromClassId # toClassId
       THEN \E id \in EditorAssocIds :
               /\ ~SomeId(associations, id)
               /\ Len(associations) < MaxList
               /\ CallAddAssociation(NewAssociation(id))
               /\ emitted' = Append(emitted, NewAssociation(id))
               /\ Unmounted
       ELSE UNCHANGED <<dialogVars, editorState, editorTimers, editorHistory>>
    /\ UNCHANGED canvasVars
    /\ UNCHANGED <<mergeVars, hookVars, dedupVars, retryVars>>

DialogNext ==
    \/ \E cls \in AiClassLists : LoadDiagram("d1", cls, <<>>)
    \/ OpenAssociationEditor
    \/ \E id \in EditorClassIds : SetFromClassId(id)
    \/ \E id \in EditorClassIds : SetToClassId(id)
    \/ \E end \in {"from", "to"}, multiplicity \in MULTIPLICITY_OPTIONS :
          SetMultiplicity(end, multiplicity)
    \/ \E newType \in RELATIONSHIP_TYPES : HandleRelationshipTypeChange(newType)
    \/ \E checked \in BOOLEAN : SetHasAssociationClass(checked)
    \/ \E name \in AssociationClassNames : SetAssociationClassName(name)
    \/ CancelAssociationEditor
    \/ AssociationEditorSave

SpecDialog == EditorInit /\ [][DialogNext]_vars

(***************************************************************************)
(* retryWithBackoff as modifyExistingDiagram calls it: fn is the request   *)
(* to the AI service, which resolves or rejects with an error of the API.  *)
(***************************************************************************)
maxRetries == 3

baseDelay == 2000

\* What the service answers with.
ServiceResults == {"r1", "r2"}

\* The errors fn rejects with: those of the API, by code and status (error
\* .error.code, error.error.status), one with a status alone and one with
\* neither, as a network failure has (0 and "NONE" stand for undefined).
ServiceErrors ==
    {[code |-> 400, status |-> "INVALID_ARGUMENT"],
     [code |-> 401, status |-> "UNAUTHENTICATED"],
     [code |-> 403, status |-> "PERMISSION_DENIED"],
     [code |-> 429, status |-> "RESOURCE_EXHAUSTED"],
     [code |-> 500, status |-> "INTERNAL"],
     [code |-> 503, status |-> "UNAVAILABLE"],
     [code |-> 0, status |-> "UNAVAILABLE"],
     [code |-> 0, status |-> "NONE"]}

CallOutcomes ==
    [ok : {TRUE}, value : ServiceResults] \union [ok : {FALSE}, value : ServiceErrors]

\* baseDelay * Math.pow(2, attempt)
BackoffDelay(n) == baseDelay * (2 ^ n)

\* The catch block that waits after every error while attempts are left.
CatchDecision_RetriesAll(e, n) ==
    IF n < maxRetries - 1 THEN "sleep" ELSE "throw"

\* The catch block of the loop: what it does with the error of attempt n.
CatchDecision(e, n) ==
    IF e.code \in {401, 403, 400}
    THEN "throw"
    ELSE IF (e.code \in {503, 429} \/ e.status = "UNAVAILABLE")
               /\ n < maxRetries - 1
    THEN "sleep"
    ELSE "throw"

\* retryWithBackoff(fn, 3, 2000) is called: the loop starts and fn is called.
RetryWithBackoff ==
    /\ retryPhase = "idle"
    /\ retryPhase' = IF 0 < maxRetries THEN "calling" ELSE "done"
    /\ attempt' = 0
    /\ settled' = IF 0 < maxRetries THEN settled
                  ELSE Thrown(NoError)
    /\ UNCHANGED <<callLog, delayLog>>
    /\ UNCHANGED <<mergeVars, hookVars, editorVars, dedupVars, dialogVars>>

\* The awaited call of fn settles.
FnSettles(outcome) ==
    /\ retryPhase = "calling"
    /\ callLog' = Append(callLog, outcome)
    /\ IF outcome.ok
       THEN /\ settled' = Returned(outcome.value)
            /\ retryPhase' = "done"
            /\ UNCHANGED delayLog
       ELSE IF CatchDecision(outcome.value, attempt) = "sleep"
       THEN /\ delayLog' = Append(delayLog, BackoffDelay(attempt))
            /\ retryPhase' = "sleeping"
            /\ UNCHANGED settled
       ELSE /\ settled' = Thrown(outcome.value)
            /\ retryPhase' = "done"
            /\ UNCHANGED delayLog
    /\ UNCHANGED attempt
    /\ UNCHANGED <<mergeVars, hookVars, editorVars, dedupVars, dialogVars>>

\* The timer of the delay fires: continue, attempt++, and the test of the
\* loop; past the loop lastError is thrown.
DelayElapses ==
    /\ retryPhase = "sleeping"
    /\ attempt' = attempt + 1
    /\ IF attempt + 1 < maxRetries
       THEN retryPhase' = "calling" /\ UNCHANGED settled
       ELSE /\ retryPhase' = "done"
            /\ settled' = Thrown(callLog[Len(callLog)].value)
    /\ UNCHANGED <<callLog, delayLog>>
    /\ UNCHANGED <<mergeVars, hookVars, editorVars, dedupVars, dialogVars>>

RetryNext ==
    \/ RetryWithBackoff
    \/ \E outcome \in CallOutcomes : FnSettles(outcome)
    \/ DelayElapses

SpecRetry == EditorInit /\ [][RetryNext]_vars

(***************************************************************************)
(* Properties of the merge.                                                *)
(***************************************************************************)
\* The indexes and the merged list as they are when aiClasses[i] is reached.
StateBefore(i) ==
    MergeClassLoop([byId   |-> MapById(existingClasses),
                    byName |-> MapByName(existingClasses),
                    merged |-> <<>>], SubSeq(aiClasses, 1, i - 1))

CountId(list, id) == Cardinality({i \in 1..Len(list) : list[i].id = id})

\* A proposed class whose id is no existing id and whose lower-cased name is
\* the name of an existing class not consumed before its turn.
NameMatchCase(i) ==
    /\ aiClasses[i].id \notin Range(IdsOf(existingClasses))
    /\ \E e \in Range(MapValues(StateBefore(i).byId)) :
          toLowerCase(e.name) = toLowerCase(aiClasses[i].name)

IsNewClass(i) ==
    /\ aiClasses[i].id \notin Range(IdsOf(existingClasses))
    /\ \A e \in Range(existingClasses) :
          toLowerCase(e.name) # toLowerCase(aiClasses[i].name)

IsNewAssoc(i) == aiAssociations[i].id \notin Range(IdsOf(existingAssociations))

OnlyOnce(list, i) == \A j \in 1..Len(list) : list[j].id = list[i].id => j = i

\* C1 (as claimed): with the existing endpoints resolving and the proposal
\* valid, every association of the result has both endpoints among the ids of
\* the result's classes.
C1_EndpointIntegrity ==
    (/\ mergeDone
     /\ EndpointsResolve(existingClasses, existingAssociations)
     /\ EndpointsResolve(aiClasses, aiAssociations))
        => EndpointsResolve(mergedClasses, mergedAssociations)

\* C6: with unique ids on both sides, a proposed class with an unmatched id
\* and the name of a not-yet-consumed existing class leaves exactly one class
\* with that existing class's id and no class with the proposed id.
C6_NameMatchKeepsExistingId ==
    (mergeDone /\ UniqueIds(existingClasses) /\ UniqueIds(aiClasses)) =>
        \A i \in 1..Len(aiClasses) :
            NameMatchCase(i) =>
                /\ \E e \in Range(MapValues(StateBefore(i).byId)) :
                      /\ toLowerCase(e.name) = toLowerCase(aiClasses[i].name)
                      /\ CountId(mergedClasses, e.id) = 1
                /\ CountId(mergedClasses, aiClasses[i].id) = 0

\* C7: a diagram with unique ids merged with itself comes back unchanged.
C7_MergeIdempotent ==
    (mergeDone /\ aiClasses = existingClasses /\ aiAssociations = existingAssociations
        /\ UniqueIds(existingClasses) /\ UniqueIds(existingAssociations))
        => /\ mergedClasses = existingClasses
           /\ mergedAssociations = existingAssociations

C7_Witness ==
    /\ mergeDone
    /\ aiClasses = existingClasses
    /\ aiAssociations = existingAssociations
    /\ Len(existingClasses) = 2
    /\ toLowerCase(existingClasses[1].name) = toLowerCase(existingClasses[2].name)
    /\ Len(existingAssociations) = 2
    /\ \E i \in 1..2 : "cascadeDelete" \in DOMAIN existingAssociations[i]

C9_UntouchedKept ==
    mergeDone =>
        /\ \A e \in Range(existingClasses) :
              (\A i \in 1..Len(aiClasses) :
                  /\ aiClasses[i].id # e.id
                  /\ toLowerCase(aiClasses[i].name) # toLowerCase(e.name))
                  => e \in Range(mergedClasses)
        /\ \A a \in Range(existingAssociations) :
              a.id \notin Range(IdsOf(aiAssociations))
                  => a \in Range(mergedAssociations)

\* C10: the result has no two classes and no two associations with one id.
C10_ResultIdsUnique ==
    mergeDone => UniqueIds(mergedClasses) /\ UniqueIds(mergedAssociations)

C10_Witness ==
    /\ mergeDone
    /\ ~UniqueIds(aiClasses)
    /\ Len(mergedClasses) < Len(AssembledClasses(existingClasses, aiClasses))

SameNamed(i) ==
    {k \in 1..Len(existingClasses) :
        toLowerCase(existingClasses[k].name) = toLowerCase(aiClasses[i].name)}

LastOf(S) == CHOOSE k \in S : \A l \in S : l <= k

C2_ReconnectAfterOpen ==
    (lastHandler = "onerror:CLOSED" /\ everOpened) => reconnectTimeoutRef.pending

\* C3: a closure on the very first attempt for a diagram id (counter 0, never
\* opened) marks the diagram as not found and arms no reconnect timer, and as
\* long as the hook has not been given another diagram id no EventSource is
\* created for it again.
C3_NoRetryForNotFound ==
    /\ (lastHandler = "onerror:CLOSED" /\ ~everOpened) =>
           (is404ErrorRef /\ ~reconnectTimeoutRef.pending)
    /\ notFoundId # Null =>
           (connectCount = connectsAtFlag /\ ~reconnectTimeoutRef.pending)

\* C16: when the hook is given another diagram id (and is enabled for it),
\* the attempt counter is 0 and the not-found flag is clear after the
\* effect, and a new EventSource is connecting to the new id, whatever the
\* counter and the flag were for the previous id.
C16_FreshIdResets ==
    [][(hookProps'.diagramId # hookProps.diagramId /\ ShouldConnect(hookProps')) =>
          /\ reconnectAttemptsRef' = 0
          /\ ~is404ErrorRef'
          /\ ~reconnectTimeoutRef'.pending
          /\ connectCount' = connectCount + 1
          /\ eventSourceRef' = [id |-> hookProps'.diagramId,
                                readyState |-> "CONNECTING",
                                serial |-> connectCount']]_vars

\* The first connection made after an id was flagged as not found is the
\* one the effect made for another id.
C16_Witness ==
    /\ lastHandler = "effect"
    /\ connectsAtFlag > 0
    /\ notFoundId = Null
    /\ connectCount = connectsAtFlag + 1
    /\ eventSourceRef.readyState = "CONNECTING"
    /\ eventSourceRef.id = hookProps.diagramId

\* C29: the cleanup of the effect, on unmount and on every change of its
\* dependencies, closes the connection and cancels the reconnect timer.  At
\* every moment at most one EventSource is connecting or open, it is the one
\* the ref holds and it streams the diagram of the present props; after the
\* unmount none is left and no reconnect timer is pending, and a timer is
\* pending only for the diagram of the present props.
C29_OneConnectionForCurrentId ==
    /\ Cardinality(liveSources) <= 1
    /\ \A s \in liveSources :
          /\ hookMounted /\ ShouldConnect(hookProps)
          /\ s.id = hookProps.diagramId
          /\ s.id = eventSourceRef.id /\ s.serial = eventSourceRef.serial
    /\ reconnectTimeoutRef.pending => (hookMounted /\ ShouldConnect(hookProps))
    /\ ~hookMounted => eventSourceRef = NoEventSource

\* The effect has run again after an earlier connection: the only
\* EventSource alive is the newest one, for the diagram d2 of the props.
C29_Witness ==
    /\ lastHandler = "effect"
    /\ connectCount >= 2
    /\ hookProps.diagramId = "d2"
    /\ liveSources = {[id |-> "d2", serial |-> connectCount]}

(***************************************************************************)
(* Properties of the editor page.                                          *)
(***************************************************************************)

\* C4: a burst of local edits results in exactly one autosave request,
\* issued once the quiet period after the last edit has passed: since the
\* last local edit, no more than one autosave request has been issued.
C4_BurstSavedOnce == lastChange \in LocalEdits => autosavesSinceChange <= 1

\* C5: in every state of the editor no two classes of the class list share
\* an id and no two associations of the association list share an id.
C5_EditorIdsUnique == UniqueIds(classes) /\ UniqueIds(associations)

\* C18: without local edits and applied snapshots autosave comes to rest:
\* the completion of a save request does not by itself arm a timer.  After
\* the step that takes the response to an autosave request, an autosave
\* timer is pending only if one was pending before.
C18_SaveCompletionArmsNothing ==
    [][(/\ Len(pendingSaves') < Len(pendingSaves)
        /\ Head(pendingSaves).kind = "auto"
        /\ ~autosaveTimer.armed)
          => ~autosaveTimer'.armed]_vars

\* C25: a save request that completes successfully leaves hasUnsavedChanges
\* false only if the lists in memory are the lists that request sent; an
\* edit made while the request was in flight is still flagged afterwards.
C25_CleanMeansSaved ==
    [][(/\ SaveCompletes(TRUE)
        /\ ~(Head(pendingSaves).kind = "auto"
               /\ StartsWithShared(Head(pendingSaves).diagramId))
        /\ ~hasUnsavedChanges')
          => /\ classes' = Head(pendingSaves).classes
             /\ associations' = Head(pendingSaves).associations]_vars

\* C26: an autosave timer is armed only while a diagram is loaded and the
\* class list is not empty, so autoSave issues its request in such a state
\* only; every request in flight that carries no classes comes from the
\* Save button, and every request of autoSave names a diagram.
C26_AutosaveNeedsClasses ==
    /\ autosaveTimer.armed => (currentDiagram # NoDiagram /\ classes # <<>>)
    /\ \A i \in DOMAIN pendingSaves :
          /\ pendingSaves[i].classes = <<>> => pendingSaves[i].kind = "manual"
          /\ pendingSaves[i].kind = "auto" => pendingSaves[i].diagramId # NoDiagram.id

\* A diagram is loaded and has no classes: no timer is armed, and the empty
\* state is on its way to the backend by the Save button.
C26_Witness ==
    /\ lastChange = "save"
    /\ currentDiagram # NoDiagram
    /\ classes = <<>>
    /\ autosaveTimer = NoTimer
    /\ \E i \in DOMAIN pendingSaves :
          pendingSaves[i].classes = <<>> /\ pendingSaves[i].kind = "manual"

(***************************************************************************)
(* Properties of the deduplication.                                        *)
(***************************************************************************)
\* The positions of a list that hold the first occurrence of their id.
FirstOccurrences(list) ==
    {i \in 1..Len(list) : \A j \in 1..(i - 1) : list[j].id # list[i].id}

\* out is list restricted to its first occurrences, in the order of list.
IsFirstOccurrencesOf(out, list) ==
    /\ Len(out) = Cardinality(FirstOccurrences(list))
    /\ \A i \in FirstOccurrences(list) :
          out[Cardinality({j \in FirstOccurrences(list) : j <= i})] = list[i]

\* C11: deduplication by id, by either filter, returns exactly the first
\* occurrence of each id in the original order; each id occurs once in the
\* output, and a list without repeated ids is returned unchanged.
C11_DedupFirstOccurrence ==
    dedupDone =>
        /\ IsFirstOccurrencesOf(dedupByIndex, dedupInput)
        /\ IsFirstOccurrencesOf(dedupBySeen, dedupInput)
        /\ UniqueIds(dedupByIndex) /\ UniqueIds(dedupBySeen)
        /\ UniqueIds(dedupInput) =>
               (dedupByIndex = dedupInput /\ dedupBySeen = dedupInput)

\* A list of three with a repeated id whose copies differ, deduplicated.
C11_Witness ==
    /\ dedupDone
    /\ Len(dedupInput) = 3
    /\ dedupInput[1].id = dedupInput[3].id
    /\ dedupInput[1] # dedupInput[3]
    /\ dedupInput[2].id # dedupInput[1].id
    /\ dedupByIndex = <<dedupInput[1], dedupInput[2]>>


(***************************************************************************)
(* Properties of the page with the hook attached.                          *)
(***************************************************************************)
\* C12: an "update" message whose user_id is present and equals the local
\* currentUserId never invokes the update callback; classes and associations
\* are the same before and after it, whatever the payload and whether or not
\* a drag is in progress.
C12_OwnEchoIgnored ==
    [][messageSerial' # messageSerial /\ lastHandler' = "onmessage:own"
          => /\ classes' = classes
             /\ associations' = associations
             /\ lastDelivered' = lastDelivered]_vars

\* An own message has arrived at rest, on a diagram whose lists differ from
\* the lists of both snapshots.
C12_Witness ==
    /\ lastHandler = "onmessage:own"
    /\ hookProps.currentUserId \in UserIds
    /\ ~isDraggingRef
    /\ classes = <<C1Moved>>


(***************************************************************************)
(* Properties of the pointer gesture.                                      *)
(***************************************************************************)
\* C13: a snapshot delivered to handleRealtimeUpdate while isDraggingRef is
\* set leaves classes and associations unchanged; delivered 200 ms or more
\* after the end of the drag, when the flag has been cleared, it becomes the
\* local state.
C13_DragSuppression ==
    [][\A cls \in StoredClassLists, assocs \in StoredAssocLists :
          HandleRealtimeUpdate(cls, assocs) =>
             /\ isDraggingRef =>
                   classes' = classes /\ associations' = associations
             /\ (~isDraggingRef /\ msSinceDragEnd >= dragResetDelay) =>
                   /\ classes' = FilterFirstById(cls)
                   /\ associations' = FilterFirstById(assocs)]_vars

\* A snapshot has replaced the lists 200 ms after a drag that moved a class.
C13_Witness ==
    /\ lastChange = "remote"
    /\ msSinceDragEnd >= dragResetDelay
    /\ ~isDraggingRef
    /\ classes # <<>>

\* C23: a snapshot handled with the drag flag clear leaves each list with the
\* de-duplicated incoming list if that differs from it and as it was
\* otherwise; when neither differs, both lists are unchanged, the autosave
\* timer is the one that was there and no save request is issued.
C23_EqualSnapshotIsNoOp ==
    [][\A cls \in StoredClassLists, assocs \in StoredAssocLists :
          (HandleRealtimeUpdate(cls, assocs) /\ ~isDraggingRef) =>
             /\ classes' = IF FilterFirstById(cls) # classes
                            THEN FilterFirstById(cls) ELSE classes
             /\ associations' = IF FilterFirstById(assocs) # associations
                                 THEN FilterFirstById(assocs) ELSE associations
             /\ (/\ FilterFirstById(cls) = classes
                 /\ FilterFirstById(assocs) = associations) =>
                    /\ classes' = classes /\ associations' = associations
                    /\ autosaveTimer' = autosaveTimer
                    /\ pendingSaves' = pendingSaves
                    /\ hasUnsavedChanges' = hasUnsavedChanges]_vars

\* A snapshot equal to a non-empty state was handled with the flag clear
\* while no autosave timer was armed, and none is armed after it.
C23_Witness ==
    /\ lastChange = "remoteSame"
    /\ ~isDraggingRef
    /\ classes # <<>>
    /\ currentDiagram # NoDiagram
    /\ autosaveTimer = NoTimer


(***************************************************************************)
(* Properties of the editor's handlers.                                    *)
(***************************************************************************)
\* C28: the deferred callback of updateClass, run when no class of the list
\* has its id any more, leaves the class list as it is: the class is not put
\* back and no other class is altered (nor is any association).
C28_StaleUpdateIsNoOp ==
    [][(RunDeferredUpdate /\ ~SomeId(classes, Head(deferredUpdates).id)) =>
          classes' = classes /\ associations' = associations]_vars

\* A deferred update has found its class gone from a list that still holds
\* another class.
C28_Witness ==
    /\ lastChange = "staleUpdate"
    /\ classes # <<>>
    /\ deferredUpdates = <<>>

\* C14: after removeClass(id) no class has that id and no association has
\* it as fromClassId or toClassId; every other class and association is
\* left as it was, in its place.
C14_RemoveClassCascades ==
    [][\A id \in EditorClassIds :
          RemoveClass(id) =>
             /\ \A i \in DOMAIN classes' : classes'[i].id # id
             /\ \A i \in DOMAIN associations' :
                   /\ associations'[i].fromClassId # id
                   /\ associations'[i].toClassId # id
             /\ classes' = SelectSeq(classes, LAMBDA c : c.id # id)
             /\ associations' =
                   SelectSeq(associations,
                             LAMBDA a : id \notin {a.fromClassId, a.toClassId})]_vars

\* A class has been removed, and another class and an association remain.
C14_Witness ==
    /\ lastChange = "removeClass"
    /\ classes # <<>>
    /\ associations # <<>>


(***************************************************************************)
(* Properties of the assistant panel.                                      *)
(***************************************************************************)
\* The service answers the text with a failure.
Fails(text) ==
    \/ text.kind \in {"throws", "notJSON", "badClasses", "noAssociations"}
    \/ ~EndpointsResolve(text.classes, text.associations)

\* C15: when a generate or a modify fails (the text is not JSON, fails
\* validateUMLDiagramJSON, or the call throws) the panel sets an error
\* message and calls none of onGenerateClasses, onGenerateAssociations and
\* onModifyDiagram: the page's state is as before.
C15_FailureLeavesEditor ==
    [][\A text \in AiTexts :
          (Fails(text) /\ (HandleGenerate(text) \/ HandleModify(text))) =>
             /\ error' \notin {Null, ""}
             /\ UNCHANGED <<editorState, editorTimers, editorHistory>>]_vars

\* A failure is on display over a diagram that has classes and associations.
C15_Witness ==
    /\ error \notin {Null, ""}
    /\ classes # <<>>
    /\ associations # <<>>


\* C17: after a drag has ended, its final position is flushed by autosave
\* without a further local edit.  Stated on the states at rest: once the
\* drag flag has been cleared and nothing is in flight, an edit that no
\* autosave request has followed has an autosave timer pending.
C17_DragEndFlushed ==
    (/\ msSinceDragEnd >= dragResetDelay
     /\ lastChange = "edit"
     /\ autosavesSinceChange = 0
     /\ ~isDraggingRef
     /\ deferredUpdates = <<>>
     /\ pendingSaves = <<>>
     /\ classes # <<>>)
        => autosaveTimer.armed


\* C19: at every moment between the mouse-down on a class and the mouse-up,
\* however long the pointer rests between moves, a snapshot delivered to
\* handleRealtimeUpdate is discarded: classes and associations stay as
\* they are.
C19_SnapshotDiscardedDuringGesture ==
    [][\A cls \in StoredClassLists, assocs \in StoredAssocLists :
          (draggedClass # Null /\ HandleRealtimeUpdate(cls, assocs)) =>
             classes' = classes /\ associations' = associations]_vars


(***************************************************************************)
(* Properties of the association editor.                                   *)
(***************************************************************************)
\* C24: every association the dialog has handed over that carries an
\* associationClass is of type association and has a many-valued
\* multiplicity at both ends.
C24_AssociationClassOnlyManyToMany ==
    \A i \in DOMAIN emitted :
        "associationClass" \in DOMAIN emitted[i] =>
            /\ emitted[i].relationshipType = "association"
            /\ IsMany(emitted[i].fromMultiplicity)
            /\ IsMany(emitted[i].toMultiplicity)

\* C30: a click on Add Association hands over an association only when both
\* classes are chosen and differ, and then with those two as its endpoints;
\* otherwise nothing is handed over and the page's associations stay as they
\* are.
C30_SaveNeedsTwoDistinctEndpoints ==
    [][AssociationEditorSave =>
          IF fromClassId # "" /\ toClassId # "" /\ fromClassId # toClassId
          THEN /\ Len(emitted') = Len(emitted) + 1
               /\ emitted'[Len(emitted')].fromClassId = fromClassId
               /\ emitted'[Len(emitted')].toClassId = toClassId
               /\ associations' = Append(associations, emitted'[Len(emitted')])
          ELSE emitted' = emitted /\ associations' = associations]_vars

\* An association between two different classes has been handed over and is
\* the last of the page's associations.
C30_Witness ==
    /\ emitted # <<>>
    /\ emitted[1].fromClassId # emitted[1].toClassId
    /\ associations # <<>>
    /\ associations[Len(associations)] = emitted[1]
    /\ ~associationEditorOpen

(***************************************************************************)
(* Properties of retryWithBackoff.                                         *)
(***************************************************************************)
Retried(e) ==
    e.code \notin {400, 401, 403}
        /\ (e.code \in {503, 429} \/ e.status = "UNAVAILABLE")

\* C27: the service is called at most 3 times; a call is followed by another
\* only if it failed with code 503 or 429 or status UNAVAILABLE, and then
\* after 2000 ms the first time and 4000 ms the second; such a failure of
\* the first or second call is followed by the wait and leaves the promise
\* pending; a failure with code 400, 401 or 403 is the last call and its
\* error is thrown; a call that succeeds is the last call and its result is
\* returned; the error of a failed third call is thrown.
C27_RetryThreeTimesWithBackoff ==
    /\ Len(callLog) <= 3
    /\ delayLog \in {<<>>, <<2000>>, <<2000, 4000>>}
    /\ \A i \in DOMAIN callLog :
          /\ i < Len(callLog) =>
                (~callLog[i].ok /\ Retried(callLog[i].value) /\ Len(delayLog) >= i)
          /\ (i = Len(callLog) /\ callLog[i].ok) =>
                settled = Returned(callLog[i].value)
          /\ (i = Len(callLog) /\ ~callLog[i].ok
                 /\ callLog[i].value.code \in {400, 401, 403}) =>
                (settled = Thrown(callLog[i].value) /\ Len(delayLog) = i - 1)
          /\ (i = Len(callLog) /\ i < 3 /\ ~callLog[i].ok
                 /\ Retried(callLog[i].value)) =>
                (settled = NoSettlement /\ Len(delayLog) = i)
          /\ (i = 3 /\ ~callLog[i].ok) =>
                settled = Thrown(callLog[i].value)
    /\ settled.how = "returned" => callLog[Len(callLog)].ok

\* Three calls failed with retryable errors, the waits were 2000 ms and
\* 4000 ms, and the third error was thrown.
C27_Witness ==
    /\ Len(callLog) = 3
    /\ delayLog = <<2000, 4000>>
    /\ settled.how = "thrown"
    /\ Retried(callLog[3].value)

====
